---- MODULE Spec2Model ----
(***************************************************************************)
(* Landmark-interpretation pipeline of the posture analyzer:               *)
(*   geometry (angles.py), landmark addressing (landmarks.py), the form    *)
(*   analyzers (analyzers/*.py), the single-frame classifier (detect.py),  *)
(*   the temporal ExerciseRecognizer (exercise_recognizer.py) and the      *)
(*   sliding-window FatigueAnalyzer (fatigue.py).                          *)
(*                                                                         *)
(* Numbers.  Coordinates are integers in units of 1/100 of the normalised  *)
(* image (0.05 is 5).  Norms are in units of 1/100 of a coordinate unit.   *)
(* Angles are whole degrees (arccos by a cosine table, nearest degree).    *)
(* Fatigue scores are in units of 1/10000 (1.0 is 10000).  Recognizer      *)
(* confidence is an exact fraction <<num, den>> in lowest terms.  Profile  *)
(* scores are exact, in units of 1/ScoreScale.  NaN is a value of its own  *)
(* that every arithmetic operator propagates.                              *)
(***************************************************************************)
EXTENDS Integers, Sequences, FiniteSets, TLC

\* ------------------------------------------------------------------------
\* Python values
\* ------------------------------------------------------------------------
None    == "None"            \* None where a label or a phase is expected
NoneNum == -1                \* None where an angle (>= 0) is expected
NonePt  == << >>             \* None where a 3D point is expected
NaN     == -1000000          \* float NaN (coordinates and scores)

\* A label handed to the dispatcher is the tuple of its characters; None is
\* the tuple <<None>>, which is no character.
NoneLabel == <<None>>

\* ------------------------------------------------------------------------
\* landmarks.py
\* ------------------------------------------------------------------------
LEFT_SHOULDER  == 11
RIGHT_SHOULDER == 12
LEFT_ELBOW     == 13
RIGHT_ELBOW    == 14
LEFT_WRIST     == 15
RIGHT_WRIST    == 16
LEFT_HIP       == 23
RIGHT_HIP      == 24
LEFT_KNEE      == 25
RIGHT_KNEE     == 26
LEFT_ANKLE     == 27
RIGHT_ANKLE    == 28
LEFT_HEEL      == 29
RIGHT_HEEL     == 30
NUM_LANDMARKS  == 33

NaNPoint == <<NaN, NaN, NaN>>

\* np.isnan(p).any()
isnan_any(p) == \E i \in 1..3 : p[i] = NaN

\* A frame is [kind, n, rows]: kind "none" (Python None), "list" (a list of n
\* landmark objects, rows[i] = <<x, y, z>>) or "ndarray" (an n x 3 array).
NoneFrame == [kind |-> "none", n |-> 0, rows |-> [i \in {} |-> NaNPoint]]

\* `not landmarks` for None and for the empty list
Falsy(landmarks) == landmarks.kind = "none" \/ landmarks.n = 0

\* an assignment: v is evaluated once and F is applied to its value
Bind(v, F(_)) == CHOOSE r \in {F(x) : x \in {v}} : TRUE

Min2(a, b) == IF a < b THEN a ELSE b
Max2(a, b) == IF a > b THEN a ELSE b

\* _landmarks_to_np: a 33 x 3 array, NaN beyond the end of the list
landmarks_to_np(landmarks) ==
    [kind |-> "ndarray", n |-> NUM_LANDMARKS,
     rows |-> [i \in 0..(NUM_LANDMARKS - 1) |->
                 IF Falsy(landmarks) THEN NaNPoint
                 ELSE IF i < Min2(landmarks.n, NUM_LANDMARKS)
                      THEN landmarks.rows[i] ELSE NaNPoint]]

\* _is_valid
is_valid(p) == p # NonePt /\ ~isnan_any(p)

\* get_landmark_3d: the ndarray branch drops NaN rows, the list branch only
\* checks the index
get_landmark_3d(landmarks, idx) ==
    IF landmarks.kind = "ndarray"
    THEN IF idx < 0 \/ idx >= landmarks.n THEN NonePt
         ELSE IF isnan_any(landmarks.rows[idx]) THEN NonePt
              ELSE landmarks.rows[idx]
    ELSE IF Falsy(landmarks) \/ idx >= landmarks.n THEN NonePt
         ELSE landmarks.rows[idx]

\* the x coordinate as it is, NaN or not
safe_x_raw(L, idx) == L.rows[idx][1]

\* _safe_x
safe_x(L, idx) == IF isnan_any(L.rows[idx]) THEN NoneNum ELSE L.rows[idx][1]

\* ------------------------------------------------------------------------
\* angles.py
\* ------------------------------------------------------------------------
NormScale == 100
CosScale  == 10000

Sub(p, q)  == <<p[1] - q[1], p[2] - q[2], p[3] - q[3]>>
Dot(u, v)  == u[1] * v[1] + u[2] * v[2] + u[3] * v[3]
Abs(a)     == IF a < 0 THEN -a ELSE a

RECURSIVE ISqrtIter(_, _, _)
ISqrtIter(n, lo, hi) ==
    IF lo >= hi THEN lo
    ELSE LET mid == (lo + hi + 1) \div 2
         IN  IF mid * mid <= n THEN ISqrtIter(n, mid, hi)
             ELSE ISqrtIter(n, lo, mid - 1)

\* np.linalg.norm, in 1/NormScale of a coordinate unit: the root lies
\* between the largest component and the sum of the components
norm(v) ==
    LET a1 == Abs(v[1])
        a2 == Abs(v[2])
        a3 == Abs(v[3])
    IN  ISqrtIter(Dot(v, v) * NormScale * NormScale,
                  NormScale * Max2(a1, Max2(a2, a3)),
                  Min2(46340, NormScale * (a1 + a2 + a3)))

\* truncating division (toward zero), as the sign of a quotient matters
QuoT(a, b) == IF a >= 0 THEN a \div b ELSE -((-a) \div b)

\* np.dot(v1, v2) / (n1 * n2), scaled by CosScale.  The product n1 * n2 does
\* not depend on the order of its factors, so the two divisions are made in
\* one fixed order: by the smaller norm first.
CosOf(v1, v2, n1, n2) ==
    QuoT(QuoT(Dot(v1, v2) * NormScale * NormScale, Min2(n1, n2)) * CosScale, Max2(n1, n2))

\* np.clip
clip(x, lo, hi) == IF x < lo THEN lo ELSE IF x > hi THEN hi ELSE x

\* CosTable[d + 1] = cos(d degrees) * CosScale
CosTable ==
  << 10000, 9998, 9994, 9986, 9976, 9962, 9945, 9925, 9903, 9877, 9848, 9816, 9781,
     9744, 9703, 9659, 9613, 9563, 9511, 9455, 9397, 9336, 9272, 9205, 9135, 9063,
     8988, 8910, 8829, 8746, 8660, 8572, 8480, 8387, 8290, 8192, 8090, 7986, 7880,
     7771, 7660, 7547, 7431, 7314, 7193, 7071, 6947, 6820, 6691, 6561, 6428, 6293,
     6157, 6018, 5878, 5736, 5592, 5446, 5299, 5150, 5000, 4848, 4695, 4540, 4384,
     4226, 4067, 3907, 3746, 3584, 3420, 3256, 3090, 2924, 2756, 2588, 2419, 2250,
     2079, 1908, 1736, 1564, 1392, 1219, 1045, 872, 698, 523, 349, 175, 0,
     -175, -349, -523, -698, -872, -1045, -1219, -1392, -1564, -1736, -1908, -2079, -2250,
     -2419, -2588, -2756, -2924, -3090, -3256, -3420, -3584, -3746, -3907, -4067, -4226, -4384,
     -4540, -4695, -4848, -5000, -5150, -5299, -5446, -5592, -5736, -5878, -6018, -6157, -6293,
     -6428, -6561, -6691, -6820, -6947, -7071, -7193, -7314, -7431, -7547, -7660, -7771, -7880,
     -7986, -8090, -8192, -8290, -8387, -8480, -8572, -8660, -8746, -8829, -8910, -8988, -9063,
     -9135, -9205, -9272, -9336, -9397, -9455, -9511, -9563, -9613, -9659, -9703, -9744, -9781,
     -9816, -9848, -9877, -9903, -9925, -9945, -9962, -9976, -9986, -9994, -9998, -10000 >>

\* the largest degree d in lo..hi with cos(d) >= c (the table decreases)
RECURSIVE ArccosFloor(_, _, _)
ArccosFloor(c, lo, hi) ==
    IF lo >= hi THEN lo
    ELSE LET mid == (lo + hi + 1) \div 2
         IN  IF CosTable[mid + 1] >= c THEN ArccosFloor(c, mid, hi)
             ELSE ArccosFloor(c, lo, mid - 1)

\* np.degrees(np.arccos(c)) for -CosScale <= c <= CosScale: the degree whose
\* cosine is nearest to c
degrees_arccos(c) ==
    LET d == ArccosFloor(c, 0, 180)
    IN  IF d < 180 /\ c - CosTable[d + 2] < CosTable[d + 1] - c THEN d + 1 ELSE d

\* the angle measured at p1 in the place of p2
AngleOfPoints_at_p1(p1, p2, p3) ==
    LET v1 == Sub(p1, p2)
        v2 == Sub(p3, p1)
        n1 == norm(v1)
        n2 == norm(v2)
    IN  IF n1 = 0 \/ n2 = 0 THEN NoneNum
        ELSE degrees_arccos(clip(CosOf(v1, v2, n1, n2), -CosScale, CosScale))

\* a zero-length vector answered with the angle 0
AngleOfPoints_zero(p1, p2, p3) ==
    LET v1 == Sub(p1, p2)
        v2 == Sub(p3, p2)
        n1 == norm(v1)
        n2 == norm(v2)
    IN  IF n1 = 0 \/ n2 = 0 THEN 0
        ELSE degrees_arccos(clip(CosOf(v1, v2, n1, n2), -CosScale, CosScale))

\* the part of calculate_angle and _angle_at after the missing-point tests
AngleOfPoints(p1, p2, p3) ==
    LET v1 == Sub(p1, p2)
        v2 == Sub(p3, p2)
        n1 == norm(v1)
        n2 == norm(v2)
    IN  IF n1 = 0 \/ n2 = 0 THEN NoneNum
        ELSE degrees_arccos(clip(CosOf(v1, v2, n1, n2), -CosScale, CosScale))

calculate_angle(p1, p2, p3) ==
    IF p1 = NonePt \/ p2 = NonePt \/ p3 = NonePt THEN NoneNum
    ELSE IF isnan_any(p1) \/ isnan_any(p2) \/ isnan_any(p3) THEN NoneNum
    ELSE AngleOfPoints(p1, p2, p3)

angle_at(L, i1, i2, i3) ==
    LET p1 == L.rows[i1]
        p2 == L.rows[i2]
        p3 == L.rows[i3]
    IN  IF isnan_any(p1) \/ isnan_any(p2) \/ isnan_any(p3) THEN NoneNum
        ELSE AngleOfPoints(p1, p2, p3)

\* ------------------------------------------------------------------------
\* analyzers/*.py   (a mistake is [issue, severity]; the constant 'fix' text
\* is left out)
\* ------------------------------------------------------------------------
Mistake(issue, sev) == [issue |-> issue, severity |-> sev]

\* the worst severity listed: 'minor' when every mistake is minor
AggregateSeverity_worst(mistakes) ==
    IF \E i \in 1..Len(mistakes) : mistakes[i].severity = "severe" THEN "severe"
    ELSE IF \E i \in 1..Len(mistakes) : mistakes[i].severity = "moderate" THEN "moderate"
    ELSE IF Len(mistakes) > 0 THEN "minor" ELSE "good"

\* 'severe' if any(...) else ('moderate' if mistakes else 'good')
AggregateSeverity(mistakes) ==
    IF \E i \in 1..Len(mistakes) : mistakes[i].severity = "severe" THEN "severe"
    ELSE IF Len(mistakes) > 0 THEN "moderate" ELSE "good"

\* mistakes.append(m) when the rule fires
AddIf(cond, mistakes, m) == IF cond THEN Append(mistakes, m) ELSE mistakes

\* squat.py: the guard of the knee-valgus rule
SquatValgusFires(L, knee_angle_left, knee_angle_right) ==
    /\ knee_angle_left # NoneNum /\ knee_angle_right # NoneNum
    /\ LET lx == safe_x(L, LEFT_KNEE)
           rx == safe_x(L, RIGHT_KNEE)
       IN  lx # NoneNum /\ rx # NoneNum /\ lx < rx

analyze_squat(landmarks) ==
    LET L == landmarks_to_np(landmarks)
        left_shoulder  == get_landmark_3d(L, LEFT_SHOULDER)
        right_shoulder == get_landmark_3d(L, RIGHT_SHOULDER)
        left_hip       == get_landmark_3d(L, LEFT_HIP)
        right_hip      == get_landmark_3d(L, RIGHT_HIP)
        left_knee      == get_landmark_3d(L, LEFT_KNEE)
        right_knee     == get_landmark_3d(L, RIGHT_KNEE)
        left_ankle     == get_landmark_3d(L, LEFT_ANKLE)
        right_ankle    == get_landmark_3d(L, RIGHT_ANKLE)
        hip_angle_left   == calculate_angle(left_shoulder, left_hip, left_knee)
        hip_angle_right  == calculate_angle(right_shoulder, right_hip, right_knee)
        knee_angle_left  == calculate_angle(left_hip, left_knee, left_ankle)
        knee_angle_right == calculate_angle(right_hip, right_knee, right_ankle)
        left_heel  == get_landmark_3d(L, LEFT_HEEL)
        right_heel == get_landmark_3d(L, RIGHT_HEEL)
        m1 == AddIf(SquatValgusFires(L, knee_angle_left, knee_angle_right), << >>,
                    Mistake("Knee Valgus (knees caving inward)", "severe"))
        m2 == AddIf(/\ knee_angle_left # NoneNum /\ knee_angle_right # NoneNum
                    /\ knee_angle_left > 120 /\ knee_angle_right > 120, m1,
                    Mistake("Insufficient squat depth", "moderate"))
        m3 == AddIf(/\ hip_angle_left # NoneNum /\ hip_angle_right # NoneNum
                    /\ hip_angle_left + hip_angle_right > 2 * 160, m2,
                    Mistake("Excessive forward lean", "moderate"))
        m4 == AddIf(/\ is_valid(left_heel) /\ is_valid(right_heel)
                    /\ is_valid(left_ankle) /\ is_valid(right_ankle)
                    /\ (\/ left_heel[3] > left_ankle[3] + 1
                        \/ right_heel[3] > right_ankle[3] + 1), m3,
                    Mistake("Heels lifting off ground", "moderate"))
    IN  [angles |-> [hip_left |-> hip_angle_left, hip_right |-> hip_angle_right,
                     knee_left |-> knee_angle_left, knee_right |-> knee_angle_right],
         mistakes |-> m4,
         severity |-> AggregateSeverity(m4)]

\* pushup.py and plank.py: the guard of the raised-buttocks rule
RaisedButtocksFires(left_hip, left_shoulder, left_ankle) ==
    /\ is_valid(left_hip) /\ is_valid(left_shoulder) /\ is_valid(left_ankle)
    /\ left_hip[2] < left_shoulder[2] - 5

\* the if / elif with the two bounds taken inclusive
ElbowMistakes_inclusive(mistakes, elbow_angle_left, elbow_angle_right) ==
    IF elbow_angle_left # NoneNum /\ elbow_angle_right # NoneNum
    THEN IF elbow_angle_left + elbow_angle_right <= 2 * 45
         THEN Append(mistakes, Mistake("Elbows tucked too close to body", "minor"))
         ELSE IF elbow_angle_left + elbow_angle_right >= 2 * 90
              THEN Append(mistakes, Mistake("Elbows flaring outward", "moderate"))
              ELSE mistakes
    ELSE mistakes

\* pushup.py: the if / elif on the mean elbow angle
\* (0.5 * (l + r) < 45.0 is l + r < 90)
ElbowMistakes(mistakes, elbow_angle_left, elbow_angle_right) ==
    IF elbow_angle_left # NoneNum /\ elbow_angle_right # NoneNum
    THEN IF elbow_angle_left + elbow_angle_right < 2 * 45
         THEN Append(mistakes, Mistake("Elbows tucked too close to body", "minor"))
         ELSE IF elbow_angle_left + elbow_angle_right > 2 * 90
              THEN Append(mistakes, Mistake("Elbows flaring outward", "moderate"))
              ELSE mistakes
    ELSE mistakes

analyze_pushup(landmarks) ==
    LET L == landmarks_to_np(landmarks)
        left_shoulder  == get_landmark_3d(L, LEFT_SHOULDER)
        right_shoulder == get_landmark_3d(L, RIGHT_SHOULDER)
        left_elbow     == get_landmark_3d(L, LEFT_ELBOW)
        right_elbow    == get_landmark_3d(L, RIGHT_ELBOW)
        left_wrist     == get_landmark_3d(L, LEFT_WRIST)
        right_wrist    == get_landmark_3d(L, RIGHT_WRIST)
        left_hip       == get_landmark_3d(L, LEFT_HIP)
        right_hip      == get_landmark_3d(L, RIGHT_HIP)
        left_ankle     == get_landmark_3d(L, LEFT_ANKLE)
        right_ankle    == get_landmark_3d(L, RIGHT_ANKLE)
        elbow_angle_left  == calculate_angle(left_shoulder, left_elbow, left_wrist)
        elbow_angle_right == calculate_angle(right_shoulder, right_elbow, right_wrist)
        body_angle_left   == calculate_angle(left_shoulder, left_hip, left_ankle)
        body_angle_right  == calculate_angle(right_shoulder, right_hip, right_ankle)
        m1 == AddIf(/\ body_angle_left # NoneNum /\ body_angle_right # NoneNum
                    /\ body_angle_left + body_angle_right < 2 * 175, << >>,
                    Mistake("Sagging hips / arched back", "moderate"))
        m2 == AddIf(RaisedButtocksFires(left_hip, left_shoulder, left_ankle), m1,
                    Mistake("Raised buttocks", "moderate"))
        m3 == ElbowMistakes(m2, elbow_angle_left, elbow_angle_right)
        m4 == AddIf(/\ elbow_angle_left # NoneNum /\ elbow_angle_right # NoneNum
                    /\ Min2(elbow_angle_left, elbow_angle_right) > 90, m3,
                    Mistake("Incomplete range of motion", "minor"))
    IN  [angles |-> [elbow_left |-> elbow_angle_left, elbow_right |-> elbow_angle_right,
                     body_alignment_left |-> body_angle_left,
                     body_alignment_right |-> body_angle_right],
         mistakes |-> m4,
         severity |-> AggregateSeverity(m4)]

analyze_plank(landmarks) ==
    LET L == landmarks_to_np(landmarks)
        left_shoulder  == get_landmark_3d(L, LEFT_SHOULDER)
        right_shoulder == get_landmark_3d(L, RIGHT_SHOULDER)
        left_hip       == get_landmark_3d(L, LEFT_HIP)
        right_hip      == get_landmark_3d(L, RIGHT_HIP)
        left_ankle     == get_landmark_3d(L, LEFT_ANKLE)
        right_ankle    == get_landmark_3d(L, RIGHT_ANKLE)
        body_angle_left  == calculate_angle(left_shoulder, left_hip, left_ankle)
        body_angle_right == calculate_angle(right_shoulder, right_hip, right_ankle)
        m1 == AddIf(/\ body_angle_left # NoneNum /\ body_angle_right # NoneNum
                    /\ body_angle_left + body_angle_right < 2 * 175, << >>,
                    Mistake("Hips sagging / arched back", "moderate"))
        m2 == AddIf(RaisedButtocksFires(left_hip, left_shoulder, left_ankle), m1,
                    Mistake("Buttocks raised too high", "moderate"))
    IN  [angles |-> [body_alignment_left |-> body_angle_left,
                     body_alignment_right |-> body_angle_right],
         mistakes |-> m2,
         severity |-> AggregateSeverity(m2)]

analyze_deadlift(landmarks) ==
    LET L == landmarks_to_np(landmarks)
        left_shoulder  == get_landmark_3d(L, LEFT_SHOULDER)
        right_shoulder == get_landmark_3d(L, RIGHT_SHOULDER)
        left_hip       == get_landmark_3d(L, LEFT_HIP)
        right_hip      == get_landmark_3d(L, RIGHT_HIP)
        left_knee      == get_landmark_3d(L, LEFT_KNEE)
        right_knee     == get_landmark_3d(L, RIGHT_KNEE)
        left_ankle     == get_landmark_3d(L, LEFT_ANKLE)
        right_ankle    == get_landmark_3d(L, RIGHT_ANKLE)
        hip_angle_left   == calculate_angle(left_shoulder, left_hip, left_knee)
        hip_angle_right  == calculate_angle(right_shoulder, right_hip, right_knee)
        knee_angle_left  == calculate_angle(left_hip, left_knee, left_ankle)
        knee_angle_right == calculate_angle(right_hip, right_knee, right_ankle)
        body_angle_left  == calculate_angle(left_shoulder, left_hip, left_ankle)
        body_angle_right == calculate_angle(right_shoulder, right_hip, right_ankle)
        m1 == AddIf(/\ body_angle_left # NoneNum /\ body_angle_right # NoneNum
                    /\ body_angle_left + body_angle_right < 2 * 160, << >>,
                    Mistake("Rounded back (spinal flexion)", "severe"))
        m2 == AddIf(/\ knee_angle_left # NoneNum /\ knee_angle_right # NoneNum
                    /\ knee_angle_left + knee_angle_right < 2 * 140, m1,
                    Mistake("Too much knee bend (squatting the weight)", "moderate"))
        m3 == AddIf(/\ knee_angle_left # NoneNum /\ knee_angle_right # NoneNum
                    /\ hip_angle_left # NoneNum /\ hip_angle_right # NoneNum
                    /\ knee_angle_left > 175 /\ knee_angle_right > 175
                    /\ (hip_angle_left < 150 \/ hip_angle_right < 150), m2,
                    Mistake("Knees extending too early", "moderate"))
    IN  [angles |-> [hip_left |-> hip_angle_left, hip_right |-> hip_angle_right,
                     knee_left |-> knee_angle_left, knee_right |-> knee_angle_right,
                     body_left |-> body_angle_left, body_right |-> body_angle_right],
         mistakes |-> m3,
         severity |-> AggregateSeverity(m3)]

analyze_lunge(landmarks) ==
    LET L == landmarks_to_np(landmarks)
        left_shoulder == get_landmark_3d(L, LEFT_SHOULDER)
        left_hip      == get_landmark_3d(L, LEFT_HIP)
        left_knee     == get_landmark_3d(L, LEFT_KNEE)
        left_ankle    == get_landmark_3d(L, LEFT_ANKLE)
        right_hip     == get_landmark_3d(L, RIGHT_HIP)
        right_knee    == get_landmark_3d(L, RIGHT_KNEE)
        right_ankle   == get_landmark_3d(L, RIGHT_ANKLE)
        knee_angle_left  == calculate_angle(left_hip, left_knee, left_ankle)
        knee_angle_right == calculate_angle(right_hip, right_knee, right_ankle)
        body_angle       == calculate_angle(left_shoulder, left_hip, left_ankle)
        lkx == safe_x(L, LEFT_KNEE)
        lax == safe_x(L, LEFT_ANKLE)
        m1 == AddIf(lkx # NoneNum /\ lax # NoneNum /\ Abs(lkx - lax) > 5, << >>,
                    Mistake("Front knee over toes", "moderate"))
        m2 == AddIf(/\ knee_angle_left # NoneNum /\ knee_angle_right # NoneNum
                    /\ (knee_angle_left > 120 \/ knee_angle_right > 120), m1,
                    Mistake("Insufficient lunge depth", "minor"))
    IN  [angles |-> [knee_left |-> knee_angle_left, knee_right |-> knee_angle_right,
                     body_alignment |-> body_angle],
         mistakes |-> m2,
         severity |-> AggregateSeverity(m2)]

\* ------------------------------------------------------------------------
\* detect.py
\* ------------------------------------------------------------------------
\* _coalesce_angles: the values that are not None, in order
RECURSIVE coalesce_angles(_)
coalesce_angles(vals) ==
    IF vals = << >> THEN << >>
    ELSE IF Head(vals) = NoneNum THEN coalesce_angles(Tail(vals))
         ELSE <<Head(vals)>> \o coalesce_angles(Tail(vals))

RECURSIVE SumSeq(_)
SumSeq(q) == IF q = << >> THEN 0 ELSE Head(q) + SumSeq(Tail(q))

\* safe_x(a) and safe_x(b) both known and abs(a - b) > 0.06
XOffsetOver(L, i, j, limit) ==
    /\ safe_x(L, i) # NoneNum /\ safe_x(L, j) # NoneNum
    /\ Abs(safe_x(L, i) - safe_x(L, j)) > limit

\* np.mean(q) >= t is sum(q) >= t * len(q)
quick_detect_exercise(landmarks) ==
    LET L == landmarks_to_np(landmarks)
        knee_left   == angle_at(L, LEFT_HIP, LEFT_KNEE, LEFT_ANKLE)
        knee_right  == angle_at(L, RIGHT_HIP, RIGHT_KNEE, RIGHT_ANKLE)
        body_left   == angle_at(L, LEFT_SHOULDER, LEFT_HIP, LEFT_ANKLE)
        body_right  == angle_at(L, RIGHT_SHOULDER, RIGHT_HIP, RIGHT_ANKLE)
        elbow_left  == angle_at(L, LEFT_SHOULDER, LEFT_ELBOW, LEFT_WRIST)
        elbow_right == angle_at(L, RIGHT_SHOULDER, RIGHT_ELBOW, RIGHT_WRIST)
        bodies == coalesce_angles(<<body_left, body_right>>)
        elbows == coalesce_angles(<<elbow_left, elbow_right>>)
        knees  == coalesce_angles(<<knee_left, knee_right>>)
        asym_angle == /\ knee_left # NoneNum /\ knee_right # NoneNum
                      /\ Abs(knee_left - knee_right) > 15
        asym_xy == \/ XOffsetOver(L, LEFT_KNEE, LEFT_ANKLE, 6)
                   \/ XOffsetOver(L, RIGHT_KNEE, RIGHT_ANKLE, 6)
    IN  IF bodies # << >> /\ SumSeq(bodies) >= 170 * Len(bodies)
        THEN IF elbows # << >> /\ SumSeq(elbows) < 160 * Len(elbows)
             THEN "pushup" ELSE "plank"
        ELSE IF Len(knees) = 2 /\ \A i \in 1..2 : knees[i] < 140
        THEN "squat"
        ELSE IF asym_angle \/ asym_xy
        THEN "lunge"
        ELSE IF /\ knees # << >> /\ \A i \in 1..Len(knees) : knees[i] >= 140
                /\ bodies # << >> /\ SumSeq(bodies) < 170 * Len(bodies)
        THEN "deadlift"
        ELSE None

\* ------------------------------------------------------------------------
\* generic.py
\* ------------------------------------------------------------------------
\* the names get_all_angles gives the angles, in insertion order
AllAngleNames == <<"left_shoulder", "right_shoulder", "left_elbow", "right_elbow",
                   "left_hip", "right_hip", "left_knee", "right_knee",
                   "body_alignment_left", "body_alignment_right">>

AllAngleValue(L, name) ==
    CASE name = "left_shoulder"  -> angle_at(L, LEFT_ELBOW, LEFT_SHOULDER, RIGHT_SHOULDER)
      [] name = "right_shoulder" -> angle_at(L, RIGHT_ELBOW, RIGHT_SHOULDER, LEFT_SHOULDER)
      [] name = "left_elbow"     -> angle_at(L, LEFT_SHOULDER, LEFT_ELBOW, LEFT_WRIST)
      [] name = "right_elbow"    -> angle_at(L, RIGHT_SHOULDER, RIGHT_ELBOW, RIGHT_WRIST)
      [] name = "left_hip"       -> angle_at(L, LEFT_SHOULDER, LEFT_HIP, LEFT_KNEE)
      [] name = "right_hip"      -> angle_at(L, RIGHT_SHOULDER, RIGHT_HIP, RIGHT_KNEE)
      [] name = "left_knee"      -> angle_at(L, LEFT_HIP, LEFT_KNEE, LEFT_ANKLE)
      [] name = "right_knee"     -> angle_at(L, RIGHT_HIP, RIGHT_KNEE, RIGHT_ANKLE)
      [] name = "body_alignment_left"  -> angle_at(L, LEFT_SHOULDER, LEFT_HIP, LEFT_ANKLE)
      [] name = "body_alignment_right" -> angle_at(L, RIGHT_SHOULDER, RIGHT_HIP, RIGHT_ANKLE)

\* get_all_angles: the dict of the angles that are not None
get_all_angles(landmarks) ==
    Bind(landmarks_to_np(landmarks), LAMBDA L :
    Bind([i \in 1..Len(AllAngleNames) |-> AllAngleValue(L, AllAngleNames[i])], LAMBDA all :
    Bind({i \in 1..Len(AllAngleNames) : all[i] # NoneNum}, LAMBDA present :
        [name \in {AllAngleNames[i] : i \in present} |->
            all[CHOOSE i \in present : AllAngleNames[i] = name]])))

\* str.lower on the characters that occur in labels
Uppers == <<"A", "B", "C", "D", "E", "F", "G", "H", "I", "J", "K", "L", "M",
            "N", "O", "P", "Q", "R", "S", "T", "U", "V", "W", "X", "Y", "Z">>
Lowers == <<"a", "b", "c", "d", "e", "f", "g", "h", "i", "j", "k", "l", "m",
            "n", "o", "p", "q", "r", "s", "t", "u", "v", "w", "x", "y", "z">>
lower_char(c) ==
    IF \E i \in 1..Len(Uppers) : Uppers[i] = c
    THEN Lowers[CHOOSE i \in 1..Len(Uppers) : Uppers[i] = c]
    ELSE c
str_lower(q) == [i \in 1..Len(q) |-> lower_char(q[i])]

\* the labels the dispatcher knows
L_squat    == <<"s", "q", "u", "a", "t">>
L_pushup   == <<"p", "u", "s", "h", "u", "p">>
L_push_up  == <<"p", "u", "s", "h", "-", "u", "p">>
L_deadlift == <<"d", "e", "a", "d", "l", "i", "f", "t">>
L_plank    == <<"p", "l", "a", "n", "k">>
L_lunge    == <<"l", "u", "n", "g", "e">>
L_generic  == <<"g", "e", "n", "e", "r", "i", "c">>

\* the chain of comparisons of analyze_generic_exercise on a given label
dispatch(landmarks, exercise_type) ==
    IF exercise_type = L_squat THEN analyze_squat(landmarks)
    ELSE IF exercise_type \in {L_pushup, L_push_up} THEN analyze_pushup(landmarks)
    ELSE IF exercise_type = L_deadlift THEN analyze_deadlift(landmarks)
    ELSE IF exercise_type = L_plank THEN analyze_plank(landmarks)
    ELSE IF exercise_type = L_lunge THEN analyze_lunge(landmarks)
    ELSE [angles |-> get_all_angles(landmarks), mistakes |-> << >>, severity |-> "good"]

\* the label compared as it was given
analyze_generic_exercise_exact(landmarks, exercise_type) ==
    dispatch(landmarks, IF exercise_type # NoneLabel /\ exercise_type # << >>
                        THEN exercise_type ELSE L_generic)

\* analyze_generic_exercise: None and '' count as 'generic'
analyze_generic_exercise(landmarks, exercise_type) ==
    dispatch(landmarks, IF exercise_type # NoneLabel /\ exercise_type # << >>
                        THEN str_lower(exercise_type) ELSE L_generic)

\* ------------------------------------------------------------------------
\* exercise_recognizer.py
\* ------------------------------------------------------------------------
confidence_threshold_num == 7      \* confidence_threshold = 0.7 = 7 / 10
min_frames       == 10
use_quick_detect == TRUE
smooth_window    == 5
history_maxlen   == 30

\* exact fractions <<num, den>>, den > 0, in lowest terms
RECURSIVE GCD(_, _)
GCD(a, b) == IF b = 0 THEN a ELSE Bind(a % b, LAMBDA r : GCD(b, r))
Frac(n, d)   == Bind(GCD(Abs(n), d), LAMBDA g : <<n \div g, d \div g>>)
FracLt(a, b) == a[1] * b[2] < b[1] * a[2]
FracLe(a, b) == a[1] * b[2] <= b[1] * a[2]
FracMin(a, b) == IF FracLt(b, a) THEN b ELSE a
FracMax(a, b) == IF FracLt(a, b) THEN b ELSE a
FracMul(a, b) == Frac(a[1] * b[1], a[2] * b[2])
FracSub(a, b) == Frac(a[1] * b[2] - b[1] * a[2], a[2] * b[2])
Zero == <<0, 1>>
One  == <<1, 1>>

\* the order in which the profile dict lists the exercises
ProfileOrder == <<"squat", "pushup", "plank", "lunge", "deadlift">>
Exercises    == {ProfileOrder[i] : i \in 1..Len(ProfileOrder)}

\* _get_default_profiles (weight in tenths; 'key_angles' is never read)
get_default_profiles ==
    [ex \in Exercises |->
        CASE ex = "squat" ->
               [expected_ranges |-> ("knee" :> <<80, 140>> @@ "hip" :> <<60, 120>>),
                weight |-> 10]
          [] ex = "pushup" ->
               [expected_ranges |-> ("elbow" :> <<60, 160>> @@ "shoulder" :> <<0, 45>>),
                weight |-> 10]
          [] ex = "plank" ->
               [expected_ranges |-> ("body_alignment" :> <<160, 200>>),
                weight |-> 10]
          [] ex = "lunge" ->
               [expected_ranges |-> ("knee" :> <<60, 150>> @@ "hip" :> <<60, 120>>
                                     @@ "body_alignment" :> <<160, 200>>),
                weight |-> 12]
          [] ex = "deadlift" ->
               [expected_ranges |-> ("knee" :> <<160, 180>> @@ "hip" :> <<120, 170>>
                                     @@ "body_alignment" :> <<150, 200>>),
                weight |-> 11]]

\* a user profile: None, or a dict with 'flexibility' and 'age'
NoneProfile == [none |-> TRUE, flexibility |-> None, age |-> 30]
UserProfile(flex, age) == [none |-> FALSE, flexibility |-> flex, age |-> age]

\* the widening applied to ranges that are widened already
get_user_profiles_twice(user_profile) ==
    LET base == get_default_profiles
    IN  [ex \in Exercises |->
            IF user_profile.flexibility = "high"
            THEN [expected_ranges |->
                     [k \in DOMAIN base[ex].expected_ranges |->
                         <<base[ex].expected_ranges[k][1] - 10 - 10,
                           base[ex].expected_ranges[k][2] + 10 + 10>>],
                  weight |-> base[ex].weight]
            ELSE base[ex]]

\* _get_user_profiles: a fresh copy of the defaults, every range widened by
\* 10 on both sides for a highly flexible user
get_user_profiles(user_profile) ==
    LET base == get_default_profiles
    IN  [ex \in Exercises |->
            IF user_profile.flexibility = "high"
            THEN [expected_ranges |->
                     [k \in DOMAIN base[ex].expected_ranges |->
                         <<base[ex].expected_ranges[k][1] - 10,
                           base[ex].expected_ranges[k][2] + 10>>],
                  weight |-> base[ex].weight]
            ELSE base[ex]]

\* a deque holding one entry more than maxlen
deque_append_one_more(q, x, maxlen) ==
    IF Len(q) < maxlen + 1 THEN Append(q, x) ELSE Append(Tail(q), x)

\* a full deque refusing the new entry
deque_append_keep_oldest(q, x, maxlen) ==
    IF Len(q) < maxlen THEN Append(q, x) ELSE q

\* deque(maxlen=...).append
deque_append(q, x, maxlen) ==
    IF Len(q) < maxlen THEN Append(q, x) ELSE Append(Tail(q), x)

\* the fast mode pushing the label once
update_history_once(history, exercise, fast_mode) ==
    deque_append(history, exercise, history_maxlen)

\* _update_history
update_history(history, exercise, fast_mode) ==
    IF fast_mode
    THEN deque_append(deque_append(deque_append(history, exercise, history_maxlen),
                                   exercise, history_maxlen), exercise, history_maxlen)
    ELSE deque_append(history, exercise, history_maxlen)

\* the names _calculate_key_angles gives the angles, in insertion order
AngleNames == <<"left_knee", "right_knee", "left_hip", "right_hip",
                "left_elbow", "right_elbow", "body_alignment_left", "body_alignment_right">>

KeyAngleValue(L, name) ==
    LET A(i1, i2, i3) == calculate_angle(get_landmark_3d(L, i1), get_landmark_3d(L, i2),
                                         get_landmark_3d(L, i3))
    IN  CASE name = "left_knee"   -> A(LEFT_HIP, LEFT_KNEE, LEFT_ANKLE)
          [] name = "right_knee"  -> A(RIGHT_HIP, RIGHT_KNEE, RIGHT_ANKLE)
          [] name = "left_hip"    -> A(LEFT_SHOULDER, LEFT_HIP, LEFT_KNEE)
          [] name = "right_hip"   -> A(RIGHT_SHOULDER, RIGHT_HIP, RIGHT_KNEE)
          [] name = "left_elbow"  -> A(LEFT_SHOULDER, LEFT_ELBOW, LEFT_WRIST)
          [] name = "right_elbow" -> A(RIGHT_SHOULDER, RIGHT_ELBOW, RIGHT_WRIST)
          [] name = "body_alignment_left"  -> A(LEFT_SHOULDER, LEFT_HIP, LEFT_ANKLE)
          [] name = "body_alignment_right" -> A(RIGHT_SHOULDER, RIGHT_HIP, RIGHT_ANKLE)

\* _calculate_key_angles: the dict of the angles that are not None
calculate_key_angles(landmarks) ==
    Bind(landmarks_to_np(landmarks), LAMBDA L :
    Bind([i \in 1..Len(AngleNames) |-> KeyAngleValue(L, AngleNames[i])], LAMBDA all :
    Bind({i \in 1..Len(AngleNames) : all[i] # NoneNum}, LAMBDA present :
        [name \in {AngleNames[i] : i \in present} |->
            all[CHOOSE i \in present : AngleNames[i] = name]])))

\* _get_angle_type, for the names above
get_angle_type(angle_name) ==
    IF angle_name \in {"left_knee", "right_knee"} THEN "knee"
    ELSE IF angle_name \in {"left_hip", "right_hip"} THEN "hip"
    ELSE IF angle_name \in {"left_elbow", "right_elbow"} THEN "elbow"
    ELSE IF angle_name \in {"left_shoulder", "right_shoulder"} THEN "shoulder"
    ELSE IF angle_name \in {"body_alignment_left", "body_alignment_right"}
         THEN "body_alignment"
    ELSE "other"

\* Scores are exact multiples of 1/ScoreScale: one angle scores k/90, the mean
\* is over at most 8 angles (840 = lcm(1..8)) and the weight is in tenths.
ScoreScale  == 756000
CountLcm    == 840
\* smoothed scores: a mean over at most smooth_window maps (60 = lcm(1..5))
SmoothLcm   == 60

\* the score of one angle without the floor at 0
angle_score_unfloored(angle_value, min_angle, max_angle) ==
    IF min_angle <= angle_value /\ angle_value <= max_angle THEN 90
    ELSE 90 - Min2(Abs(angle_value - min_angle), Abs(angle_value - max_angle))

\* the score of one angle, in 1/90:
\* 1.0 inside the range, else max(0, 1.0 - distance / 90.0)
angle_score(angle_value, min_angle, max_angle) ==
    IF min_angle <= angle_value /\ angle_value <= max_angle THEN 90
    ELSE LET distance == Min2(Abs(angle_value - min_angle), Abs(angle_value - max_angle))
         IN  Max2(0, 90 - distance)

\* the angles of the dict that the profile has a range for
ScoredNames(profile, angles) ==
    {name \in DOMAIN angles : get_angle_type(name) \in DOMAIN profile.expected_ranges}

RECURSIVE SumOver(_, _)
SumOver(S, f) ==
    IF S = {} THEN 0
    ELSE Bind(CHOOSE y \in S : TRUE, LAMBDA x :
         Bind(S \ {x}, LAMBDA rest : f[x] + SumOver(rest, f)))

\* (score / total_weight) * profile['weight'], in 1/ScoreScale
profile_score(profile, angles) ==
    Bind(ScoredNames(profile, angles), LAMBDA names :
    Bind([name \in names |->
             angle_score(angles[name],
                         profile.expected_ranges[get_angle_type(name)][1],
                         profile.expected_ranges[get_angle_type(name)][2])], LAMBDA per :
        SumOver(names, per) * (CountLcm \div Cardinality(names)) * profile.weight))

\* _calculate_exercise_scores: the dict, as the sequence of its items
RECURSIVE exercise_scores_from(_, _, _)
exercise_scores_from(i, exercise_profiles, angles) ==
    IF i > Len(ProfileOrder) THEN << >>
    ELSE Bind(ProfileOrder[i], LAMBDA ex :
         Bind(exercise_scores_from(i + 1, exercise_profiles, angles), LAMBDA rest :
             IF ScoredNames(exercise_profiles[ex], angles) # {}
             THEN <<<<ex, profile_score(exercise_profiles[ex], angles)>>>> \o rest
             ELSE rest))
calculate_exercise_scores(exercise_profiles, angles) ==
    exercise_scores_from(1, exercise_profiles, angles)

\* dict helpers on sequences of <<key, value>> items
Keys(d)   == {d[i][1] : i \in 1..Len(d)}
Get(d, k) == d[CHOOSE i \in 1..Len(d) : d[i][1] = k][2]

\* summed[k] += v, a new key going to the end
DictAdd(d, k, v) ==
    IF k \in Keys(d)
    THEN [i \in 1..Len(d) |-> IF d[i][1] = k THEN <<k, d[i][2] + v>> ELSE d[i]]
    ELSE Append(d, <<k, v>>)

RECURSIVE DictAddAll(_, _)
DictAddAll(d, items) ==
    IF items = << >> THEN d
    ELSE Bind(DictAdd(d, Head(items)[1], Head(items)[2]), LAMBDA d2 :
         Bind(Tail(items), LAMBDA rest : DictAddAll(d2, rest)))

RECURSIVE SumDicts(_, _)
SumDicts(d, window) ==
    IF window = << >> THEN d
    ELSE Bind(DictAddAll(d, Head(window)), LAMBDA d2 :
         Bind(Tail(window), LAMBDA rest : SumDicts(d2, rest)))

\* _get_smoothed_scores: {k: v / n}, in 1/(ScoreScale * SmoothLcm)
get_smoothed_scores(score_smooth) ==
    IF score_smooth = << >> THEN << >>
    ELSE Bind(SumDicts(<< >>, score_smooth), LAMBDA summed :
         Bind(Len(score_smooth), LAMBDA n :
             [i \in 1..Len(summed) |-> <<summed[i][1], summed[i][2] * (SmoothLcm \div n)>>]))

\* max(d.items(), key=lambda x: x[1]): the first item with the largest value
max_item(d) ==
    d[CHOOSE i \in 1..Len(d) :
         /\ \A j \in 1..Len(d) : d[j][2] <= d[i][2]
         /\ \A j \in 1..(i - 1) : d[j][2] < d[i][2]]

\* the phase with 'end' and 'init' only within 10 degrees of the bounds
detect_phase_near_bounds(exercise_profiles, angles, exercise) ==
    IF exercise \notin DOMAIN exercise_profiles THEN "unk"
    ELSE LET profile == exercise_profiles[exercise]
         IN  IF "knee" \in DOMAIN profile.expected_ranges
             THEN LET any_knee == <<IF "left_knee" \in DOMAIN angles
                                    THEN angles["left_knee"] ELSE 0,
                                    IF "right_knee" \in DOMAIN angles
                                    THEN angles["right_knee"] ELSE 0>>
                      valids == SelectSeq(any_knee, LAMBDA k : k # 0)
                      n == Len(valids)
                      min_knee == profile.expected_ranges["knee"][1]
                      max_knee == profile.expected_ranges["knee"][2]
                  IN  IF valids = << >> THEN "unk"
                      ELSE IF /\ SumSeq(valids) < (min_knee + 10) * n
                              /\ SumSeq(valids) > (min_knee - 10) * n THEN "end"
                      ELSE IF /\ SumSeq(valids) > (max_knee - 10) * n
                              /\ SumSeq(valids) < (max_knee + 10) * n THEN "init"
                      ELSE "mid"
             ELSE "unk"

\* _detect_phase (a knee angle of 0 counts as absent: `if k`)
detect_phase(exercise_profiles, angles, exercise) ==
    IF exercise \notin DOMAIN exercise_profiles THEN "unk"
    ELSE LET profile == exercise_profiles[exercise]
         IN  IF "knee" \in DOMAIN profile.expected_ranges
             THEN LET any_knee == <<IF "left_knee" \in DOMAIN angles
                                    THEN angles["left_knee"] ELSE 0,
                                    IF "right_knee" \in DOMAIN angles
                                    THEN angles["right_knee"] ELSE 0>>
                      valids == SelectSeq(any_knee, LAMBDA k : k # 0)
                      min_knee == profile.expected_ranges["knee"][1]
                      max_knee == profile.expected_ranges["knee"][2]
                  IN  IF valids = << >> THEN "unk"
                      ELSE IF SumSeq(valids) < (min_knee + 10) * Len(valids) THEN "end"
                      ELSE IF SumSeq(valids) > (max_knee - 10) * Len(valids) THEN "init"
                      ELSE "mid"
             ELSE "unk"

\* the counts dict of _update_confidence and its first largest item
CountOf(history, ex) == Cardinality({i \in 1..Len(history) : history[i] = ex})
FirstAt(history, ex) == CHOOSE i \in 1..Len(history) :
                            history[i] = ex /\ \A j \in 1..(i - 1) : history[j] # ex
most_common(history) ==
    CHOOSE ex \in {history[i] : i \in 1..Len(history)} :
        \A other \in {history[i] : i \in 1..Len(history)} :
            \/ CountOf(history, other) < CountOf(history, ex)
            \/ /\ CountOf(history, other) = CountOf(history, ex)
               /\ FirstAt(history, ex) <= FirstAt(history, other)

\* the reward for stability left without its min(1.0, ...)
update_confidence_unclamped(history, current_exercise, confidence) ==
    IF history = << >> THEN [confidence |-> Zero, current_exercise |-> current_exercise]
    ELSE Bind(most_common(history), LAMBDA mc :
         Bind(Frac(CountOf(history, mc), Len(history)), LAMBDA freq :
             [confidence |->
                 IF current_exercise # None /\ mc # current_exercise
                 THEN FracMul(freq, <<7, 10>>)
                 ELSE FracMul(freq, <<11, 10>>),
              current_exercise |->
                 IF FracLe(<<confidence_threshold_num, 10>>, freq) THEN mc
                 ELSE current_exercise]))

\* the penalty applied whenever the mode differs from the label, None included
update_confidence_none_penalized(history, current_exercise, confidence) ==
    IF history = << >> THEN [confidence |-> Zero, current_exercise |-> current_exercise]
    ELSE Bind(most_common(history), LAMBDA mc :
         Bind(Frac(CountOf(history, mc), Len(history)), LAMBDA freq :
             [confidence |->
                 IF mc # current_exercise
                 THEN FracMul(freq, <<7, 10>>)
                 ELSE FracMin(One, FracMul(freq, <<11, 10>>)),
              current_exercise |->
                 IF FracLe(<<confidence_threshold_num, 10>>, freq) THEN mc
                 ELSE current_exercise]))

\* the label promoted only above the threshold, not at it
update_confidence_strict(history, current_exercise, confidence) ==
    IF history = << >> THEN [confidence |-> Zero, current_exercise |-> current_exercise]
    ELSE Bind(most_common(history), LAMBDA mc :
         Bind(Frac(CountOf(history, mc), Len(history)), LAMBDA freq :
             [confidence |->
                 IF current_exercise # None /\ mc # current_exercise
                 THEN FracMul(freq, <<7, 10>>)
                 ELSE FracMin(One, FracMul(freq, <<11, 10>>)),
              current_exercise |->
                 IF FracLt(<<confidence_threshold_num, 10>>, freq) THEN mc
                 ELSE current_exercise]))

\* _update_confidence: the new [confidence, current_exercise]
update_confidence(history, current_exercise, confidence) ==
    IF history = << >> THEN [confidence |-> Zero, current_exercise |-> current_exercise]
    ELSE Bind(most_common(history), LAMBDA mc :
         Bind(Frac(CountOf(history, mc), Len(history)), LAMBDA freq :
             [confidence |->
                 IF current_exercise # None /\ mc # current_exercise
                 THEN FracMul(freq, <<7, 10>>)
                 ELSE FracMin(One, FracMul(freq, <<11, 10>>)),
              current_exercise |->
                 IF FracLe(<<confidence_threshold_num, 10>>, freq) THEN mc
                 ELSE current_exercise]))

\* `landmarks is None`
IsAbsent(landmarks) == landmarks.kind = "none"

\* an absent frame answered like a frame without scores
absent_return_reset(self) == <<None, Zero, self.last_phase>>

\* the triple returned for an absent frame
absent_return(self) == <<self.current_exercise, self.confidence, self.last_phase>>

\* the quick detection tried whatever the label and the confidence
NoConfidentLabel_any(self) == self = self

\* `self.current_exercise is None or self.confidence < 0.5`
NoConfidentLabel(self) ==
    self.current_exercise = None \/ FracLt(self.confidence, <<1, 2>>)

\* the bootstrap waiting for min_frames entries
BootstrapReady_full(history) == Len(history) >= min_frames

\* the bootstrap returns once len(self.history) >= self.min_frames // 2
BootstrapReady(history) == Len(history) >= min_frames \div 2

\* confidence = max(0, confidence - 0.2) when fatigue_score > 0.8
\* (fatigue_score in 1/10000, NoneNum for None)
fatigue_penalty(confidence, fatigue_score) ==
    IF fatigue_score # NoneNum /\ fatigue_score > 8000
    THEN FracMax(Zero, FracSub(confidence, <<1, 5>>))
    ELSE confidence

\* ExerciseRecognizer.__init__
NewRecognizer ==
    [current_exercise |-> None, confidence |-> Zero, history |-> << >>,
     score_smooth |-> << >>, last_phase |-> None,
     exercise_profiles |-> get_default_profiles]

\* ExerciseRecognizer.recognize: the recognizer after the call, the returned
\* (label, confidence, phase) and the line of the return statement taken;
\* every assignment of the method is a Bind, in the order of the code
recognize(self, landmarks, fatigue_score, user_profile) ==
    LET Ret(s, line) == [self |-> s, line |-> line,
                         ret |-> <<s.current_exercise, s.confidence, s.last_phase>>]
    IN
    Bind(IF ~user_profile.none THEN get_user_profiles(user_profile)
         ELSE self.exercise_profiles, LAMBDA profiles :
    Bind([self EXCEPT !.exercise_profiles = profiles], LAMBDA s0 :
    IF IsAbsent(landmarks) THEN [self |-> s0, line |-> 38, ret |-> absent_return(s0)]
    ELSE
    Bind(IF use_quick_detect /\ NoConfidentLabel(s0)
         THEN quick_detect_exercise(landmarks) ELSE None, LAMBDA quick_result :
    Bind(quick_result # None /\ quick_result \in DOMAIN profiles, LAMBDA pushed :
    Bind(IF pushed THEN [s0 EXCEPT !.history = update_history(@, quick_result, TRUE)]
         ELSE s0, LAMBDA s1 :
    IF pushed /\ BootstrapReady(s1.history)
    THEN Ret([s1 EXCEPT !.current_exercise = quick_result,
                        !.confidence = <<4, 5>>,
                        !.last_phase = "init"], 49)
    ELSE
    Bind(calculate_key_angles(landmarks), LAMBDA angles :
    IF DOMAIN angles = {} THEN Ret(s1, 53)
    ELSE
    Bind(calculate_exercise_scores(profiles, angles), LAMBDA scores :
    Bind([s1 EXCEPT !.score_smooth = deque_append(@, scores, smooth_window)], LAMBDA s2 :
    Bind(get_smoothed_scores(s2.score_smooth), LAMBDA smooth_scores :
    IF smooth_scores = << >>
    THEN [self |-> s2, line |-> 60, ret |-> <<None, Zero, s2.last_phase>>]
    ELSE
    Bind(max_item(smooth_scores), LAMBDA best_exercise :
    Bind([s2 EXCEPT !.history = update_history(@, best_exercise[1], FALSE)], LAMBDA s3 :
    Bind(IF Len(s3.history) >= min_frames
         THEN update_confidence(s3.history, s3.current_exercise, s3.confidence)
         ELSE [confidence |-> s3.confidence, current_exercise |-> s3.current_exercise],
         LAMBDA uc :
    Bind([s3 EXCEPT !.confidence = fatigue_penalty(uc.confidence, fatigue_score),
                    !.current_exercise = uc.current_exercise], LAMBDA s5 :
    Bind(detect_phase(profiles, angles, best_exercise[1]), LAMBDA phase :
    Ret([s5 EXCEPT !.last_phase = phase], 76)))))))))))))))

\* ------------------------------------------------------------------------
\* fatigue.py   (scores in 1/FScale; a score may be NaN)
\* ------------------------------------------------------------------------
FScale            == 10000
window_size       == 5          \* FatigueAnalyzer(window_size=5)
default_threshold == 1500       \* threshold = 0.15
dynamic           == TRUE

\* the key_indices of _extract_key_points, in order
key_indices == <<LEFT_SHOULDER, RIGHT_SHOULDER, LEFT_HIP, RIGHT_HIP, LEFT_KNEE,
                 RIGHT_KNEE, LEFT_ANKLE, RIGHT_ANKLE, LEFT_ELBOW, RIGHT_ELBOW>>
KeySet == {key_indices[i] : i \in 1..Len(key_indices)}

NonePose == << >>

\* _extract_key_points: the dict of the points get_landmark_3d returns, or
\* None unless all ten are there
extract_key_points(landmarks) ==
    LET found == {idx \in KeySet : get_landmark_3d(landmarks, idx) # NonePt}
    IN  IF Cardinality(found) = Len(key_indices)
        THEN [idx \in KeySet |-> get_landmark_3d(landmarks, idx)]
        ELSE NonePose

\* np.linalg.norm(p - q) for points that may hold NaN
dist(p, q) == IF isnan_any(p) \/ isnan_any(q) THEN NaN ELSE norm(Sub(p, q))

\* a quotient far above every clamp: abs(curr_dist - 0) / (0 + 1e-8)
Saturated == 100 * FScale

\* abs(curr_dist - prev_dist) / (prev_dist + 1e-8), in 1/FScale
variation(prev_dist, curr_dist) ==
    IF prev_dist = NaN \/ curr_dist = NaN THEN NaN
    ELSE IF prev_dist = 0 THEN (IF curr_dist = 0 THEN 0 ELSE Saturated)
    ELSE (Abs(curr_dist - prev_dist) * FScale) \div prev_dist

HasNaN(q) == \E i \in 1..Len(q) : q[i] = NaN

\* np.mean and np.sum of a non-empty list
np_mean(q) == IF HasNaN(q) THEN NaN ELSE SumSeq(q) \div Len(q)
np_sum(q)  == IF HasNaN(q) THEN NaN ELSE SumSeq(q)

\* max in the place of min
min_one_as_max(x) == IF x = NaN THEN NaN ELSE Max2(x, FScale)

\* Python's min(x, 1.0): a NaN first argument is returned as it is
min_one(x) == IF x = NaN THEN NaN ELSE Min2(x, FScale)

\* _calculate_joint_variation: np.mean(variations) * 100
calculate_joint_variation(pose_history, joint1, joint2) ==
    IF Len(pose_history) < 2 THEN 0
    ELSE LET variations ==
                 [i \in 1..(Len(pose_history) - 1) |->
                     variation(dist(pose_history[i][joint1], pose_history[i][joint2]),
                               dist(pose_history[i + 1][joint1], pose_history[i + 1][joint2]))]
             m == np_mean(variations)
         IN  IF m = NaN THEN NaN ELSE m * 100

\* min(joint_variation / divisor, 1.0)
stability(pose_history, joint1, joint2, divisor) ==
    LET jv == calculate_joint_variation(pose_history, joint1, joint2)
    IN  min_one(IF jv = NaN THEN NaN ELSE jv \div divisor)

\* the position of the joint in the place of its displacement
displacement_of_origin(prev_pose, curr_pose, k) == dist(curr_pose[k], <<0, 0, 0>>)

\* the displacement of one joint between two consecutive poses
displacement(prev_pose, curr_pose, k) == dist(curr_pose[k], prev_pose[k])

\* _calculate_velocity: min(np.mean(velocities) * 5, 1.0)
calculate_velocity(pose_history) ==
    IF Len(pose_history) < 2 THEN 0
    ELSE LET n == Len(key_indices)
             velocities ==
                 [j \in 1..((Len(pose_history) - 1) * n) |->
                     displacement(pose_history[((j - 1) \div n) + 1],
                                  pose_history[((j - 1) \div n) + 2],
                                  key_indices[((j - 1) % n) + 1])]
             m == np_mean(velocities)
         IN  min_one(IF m = NaN THEN NaN ELSE m * 5)

\* _calculate_early_fatigue: min(jitter * 2, 1.0) over the left shoulder
calculate_early_fatigue(pose_history) ==
    IF Len(pose_history) < 4 THEN 0
    ELSE LET left_shoulder == [i \in 1..Len(pose_history) |-> pose_history[i][LEFT_SHOULDER]]
             jitter == np_sum([i \in 1..(Len(left_shoulder) - 1) |->
                                  dist(left_shoulder[i + 1], left_shoulder[i])])
         IN  min_one(IF jitter = NaN THEN NaN ELSE jitter * 2)

\* _adapt_threshold
adapt_threshold(user_profile) ==
    LET base == default_threshold
        age  == user_profile.age
    IN  IF age < 20 THEN base + 300
        ELSE IF age > 40 THEN base - 300
        ELSE base

\* the mean of the five scores that make up 'overall'
overall_of(sh, core, knee, vel, early) ==
    IF HasNaN(<<sh, core, knee, vel, early>>) THEN NaN
    ELSE (sh + core + knee + vel + early) \div 5

\* stability scores starting at 1.0
NewFatigueAnalyzer_ones ==
    [pose_history |-> << >>,
     fatigue_scores |-> [shoulder_stability |-> FScale, core_stability |-> FScale,
                         knee_stability |-> FScale, elbow_stability |-> FScale,
                         ankle_stability |-> FScale, velocity |-> 0,
                         early_fatigue |-> 0, overall |-> 0],
     dynamic_threshold |-> default_threshold]

\* FatigueAnalyzer.__init__
NewFatigueAnalyzer ==
    [pose_history |-> << >>,
     fatigue_scores |-> [shoulder_stability |-> 0, core_stability |-> 0,
                         knee_stability |-> 0, elbow_stability |-> 0,
                         ankle_stability |-> 0, velocity |-> 0,
                         early_fatigue |-> 0, overall |-> 0],
     dynamic_threshold |-> default_threshold]

\* FatigueAnalyzer.update: the analyzer after the call and the returned scores
update(self, landmarks, user_profile) ==
    LET current_pose == extract_key_points(landmarks)
    IN  IF current_pose = NonePose THEN [self |-> self, ret |-> self.fatigue_scores]
        ELSE
        LET h == deque_append(self.pose_history, current_pose, window_size)
            s1 == [self EXCEPT !.pose_history = h]
        IN  IF Len(h) < 2 THEN [self |-> s1, ret |-> s1.fatigue_scores]
            ELSE
            LET sh    == stability(h, LEFT_SHOULDER, RIGHT_SHOULDER, 5)
                core  == stability(h, LEFT_HIP, RIGHT_HIP, 4)
                knee  == stability(h, LEFT_KNEE, RIGHT_KNEE, 3)
                elbow == stability(h, LEFT_ELBOW, RIGHT_ELBOW, 3)
                ankle == stability(h, LEFT_ANKLE, RIGHT_ANKLE, 3)
                vel   == calculate_velocity(h)
                early == calculate_early_fatigue(h)
                scores == [shoulder_stability |-> sh, core_stability |-> core,
                           knee_stability |-> knee, elbow_stability |-> elbow,
                           ankle_stability |-> ankle, velocity |-> vel,
                           early_fatigue |-> early,
                           overall |-> overall_of(sh, core, knee, vel, early)]
                s2 == [s1 EXCEPT !.fatigue_scores = scores,
                                 !.dynamic_threshold =
                                     IF dynamic /\ ~user_profile.none
                                     THEN adapt_threshold(user_profile)
                                     ELSE default_threshold]
            IN  [self |-> s2, ret |-> s2.fatigue_scores]

\* is_fatigued: overall > threshold (False when overall is NaN)
is_fatigued(self) ==
    self.fatigue_scores.overall # NaN
    /\ self.fatigue_scores.overall > self.dynamic_threshold

\* ------------------------------------------------------------------------
\* Input frames.  A pose is a side view of the body on the coordinate grid
\* (y grows downward); a frame id [pose, miss, len, dx] names the list of the
\* first len landmarks of the pose in which joint miss (if any) is NaN and the
\* left hip is moved by (dx, 0, 0).
\* ------------------------------------------------------------------------
P2(x, y) == <<x, y, 0>>

Skeleton(ls, le, lw, lh, lk, la, lhe, rs, re, rw, rh, rk, ra, rhe) ==
    (LEFT_SHOULDER :> ls @@ RIGHT_SHOULDER :> rs @@ LEFT_ELBOW :> le @@ RIGHT_ELBOW :> re
     @@ LEFT_WRIST :> lw @@ RIGHT_WRIST :> rw @@ LEFT_HIP :> lh @@ RIGHT_HIP :> rh
     @@ LEFT_KNEE :> lk @@ RIGHT_KNEE :> rk @@ LEFT_ANKLE :> la @@ RIGHT_ANKLE :> ra
     @@ LEFT_HEEL :> lhe @@ RIGHT_HEEL :> rhe)

\* the right side of the body lies 0.2 deeper than the left side
Z(p) == <<p[1], p[2], p[3] + 20>>

\* both sides in the same posture
Sym(s, e, w, h, k, a, he) ==
    Skeleton(s, e, w, h, k, a, he, Z(s), Z(e), Z(w), Z(h), Z(k), Z(a), Z(he))

PoseNames == {"SquatDeep", "SquatValgus", "SquatLow", "Plank", "PlankPike",
              "Pushup90", "Pushup45", "PushupTuck", "PushupFlare", "PushupMix",
              "Lunge", "Deadlift"}

PoseOf(name) ==
    CASE name = "SquatDeep" ->     \* knees 90, hips 90, trunk upright
           Sym(P2(50,20), P2(50,35), P2(50,50), P2(50,50), P2(80,50), P2(80,80), P2(78,82))
      [] name = "SquatValgus" ->   \* the same, left knee left of the right knee
           Skeleton(P2(50,20), P2(50,35), P2(50,50), P2(50,50), P2(78,50), P2(78,80), P2(76,82),
                    Z(P2(50,20)), Z(P2(50,35)), Z(P2(50,50)), Z(P2(50,50)), Z(P2(80,50)),
                    Z(P2(80,80)), Z(P2(78,82)))
      [] name = "SquatLow" ->      \* knees 90, hips 90, trunk folded on the thighs
           Sym(P2(50,20), P2(50,35), P2(50,50), P2(50,50), P2(80,50), P2(80,20), P2(78,18))
      [] name = "Plank" ->         \* straight body, straight arms
           Sym(P2(20,50), P2(20,65), P2(20,80), P2(50,50), P2(70,50), P2(90,50), P2(92,48))
      [] name = "PlankPike" ->     \* hips 10 above the shoulders
           Sym(P2(20,50), P2(20,65), P2(20,80), P2(50,40), P2(70,45), P2(90,50), P2(92,48))
      [] name = "Pushup90" ->      \* elbows 90
           Sym(P2(20,50), P2(20,65), P2(35,65), P2(50,50), P2(70,50), P2(90,50), P2(92,48))
      [] name = "Pushup45" ->      \* elbows 45
           Sym(P2(20,50), P2(20,65), P2(35,50), P2(50,50), P2(70,50), P2(90,50), P2(92,48))
      [] name = "PushupTuck" ->    \* elbows 27
           Sym(P2(20,50), P2(20,70), P2(30,50), P2(50,50), P2(70,50), P2(90,50), P2(92,48))
      [] name = "PushupFlare" ->   \* elbows 135
           Sym(P2(20,50), P2(20,65), P2(35,80), P2(50,50), P2(70,50), P2(90,50), P2(92,48))
      [] name = "PushupMix" ->     \* left elbow 45, right elbow 135
           Skeleton(P2(20,50), P2(20,65), P2(35,50), P2(50,50), P2(70,50), P2(90,50), P2(92,48),
                    Z(P2(20,50)), Z(P2(20,65)), Z(P2(35,80)), Z(P2(50,50)), Z(P2(70,50)),
                    Z(P2(90,50)), Z(P2(92,48)))
      [] name = "Lunge" ->         \* left knee 90, right knee 153
           Skeleton(P2(50,20), P2(50,35), P2(50,50), P2(50,50), P2(70,50), P2(70,80), <<68,82,3>>,
                    Z(P2(50,20)), Z(P2(50,35)), Z(P2(50,50)), Z(P2(50,50)), Z(P2(40,70)),
                    Z(P2(40,90)), Z(P2(38,92)))
      [] name = "Deadlift" ->      \* hinge at the hips, knees nearly straight
           Sym(P2(75,35), P2(75,50), P2(75,65), P2(50,50), P2(52,70), P2(50,90), P2(48,92))

KeyJoints == {LEFT_SHOULDER, RIGHT_SHOULDER, LEFT_ELBOW, RIGHT_ELBOW, LEFT_WRIST,
              RIGHT_WRIST, LEFT_HIP, RIGHT_HIP, LEFT_KNEE, RIGHT_KNEE, LEFT_ANKLE,
              RIGHT_ANKLE, LEFT_HEEL, RIGHT_HEEL}

NoMiss == NoneNum
\* as miss: every landmark of the list has NaN coordinates
AllMiss == -2
NoneId == [pose |-> "None", miss |-> NoMiss, len |-> 0, dx |-> 0]
Fid(p, m, l) == [pose |-> p, miss |-> m, len |-> l, dx |-> 0]
Shifted(p, dx) == [pose |-> p, miss |-> NoMiss, len |-> NUM_LANDMARKS, dx |-> dx]

\* the landmark list a frame id names (joints outside the pose are at the
\* origin, as a pose estimator always gives every landmark a position)
FrameOf(id) ==
    IF id.pose = "None" THEN NoneFrame
    ELSE [kind |-> "list", n |-> id.len,
          rows |-> [i \in 0..(id.len - 1) |->
                      IF id.miss = AllMiss \/ i = id.miss THEN NaNPoint
                      ELSE IF i = LEFT_HIP
                           THEN <<PoseOf(id.pose)[i][1] + id.dx, PoseOf(id.pose)[i][2],
                                  PoseOf(id.pose)[i][3]>>
                      ELSE IF i \in KeyJoints THEN PoseOf(id.pose)[i]
                           ELSE <<0, 0, 0>>]]

\* list lengths that cut a frame short: empty, arms only, no ankles
ShortLens == {0, 17, 27}

AnalyzerFrames ==
    {Fid(p, m, NUM_LANDMARKS) : p \in PoseNames, m \in {NoMiss} \cup KeyJoints}
    \cup {Fid(p, NoMiss, l) : p \in PoseNames, l \in ShortLens}
    \cup {NoneId, Fid("Plank", AllMiss, NUM_LANDMARKS)}

\* does the frame carry joint idx (inside the list, no NaN coordinate)
Present(id, idx) ==
    /\ id.pose # "None" /\ idx < id.len
    /\ ~isnan_any(FrameOf(id).rows[idx])

\* ------------------------------------------------------------------------
\* State
\* ------------------------------------------------------------------------
VARIABLES
    \* ExerciseRecognizer
    current_exercise, confidence, history, score_smooth, last_phase,
    exercise_profiles,
    rec_ret,        \* the triple returned by the last recognize call
    rec_line,       \* the line of the return statement the last call took
    rec_before,     \* the recognizer as it was before the last call
    calls,          \* number of recognize calls made so far
    last_input,     \* [frame, fatigue_score, user_profile] of the last call
    switches,       \* how many times the input differed from the call before
    ideal_for,      \* exercises X: every call so far was recognize(frame) with
                    \* a frame whose angles all lie in X's expected ranges
    uniform,        \* the frame id when every call so far was recognize(frame)
                    \* with that one frame; MixedId otherwise
    \* analyzers
    in_frame,       \* id of the frame handed to the analyzer
    analyzer,       \* which analyzer produced report ("none" before)
    report,         \* the FormReport returned
    exercise_type,  \* the label handed to analyze_generic_exercise
    detected,       \* what quick_detect_exercise returned ("none" before)
    \* geometry
    pts,            \* the three points <<p1, p2, p3>> handed to the angle functions
    angle_fn,       \* which angle function was called ("none" before)
    angle_ret,      \* its results [fwd, rev] for (p1, p2, p3) and (p3, p2, p1)
    \* FatigueAnalyzer
    pose_history, fatigue_scores, dynamic_threshold,
    fat_ret,        \* the scores returned by the last update call
    fat_before,     \* the pose window as it was before the last update call
    fat_calls,      \* number of update calls made so far
    fat_input,      \* [frame, user_profile] of the last update call
    fat_fatigued,   \* is_fatigued() after the last update call
    track,          \* the motion fed so far: pose and dx of the last complete
                    \* frame, the step between the last two, the number n of
                    \* complete frames, and clean: every call so far was a
                    \* complete frame and the hip moved by one fixed step,
                    \* and same: how many accepted frames in a row, up to
                    \* the last one, were one identical complete frame
    fat_switches,   \* how many times the input broke off from the motion and
                    \* profile of the call before
    \* _calculate_exercise_scores as a function of its inputs
    sc_angles,      \* the dict of observed angles
    sc_profiles,    \* the exercise profiles in effect
    sc_scores,      \* the dict of scores returned, as the sequence of its items
    sc_applied,     \* whether the function has been applied
    \* the HTTP API (api/main.py)
    history_owner,  \* for each entry of the global recognizer's label history,
                    \* the client whose frame put it there
    api_request,    \* the last request: [endpoint, client, frame, exercise]
    api_response,   \* the answer to it: [status, detected, exercise, phase]
    api_calls       \* number of requests served so far

rec_vars == <<current_exercise, confidence, history, score_smooth, last_phase,
              exercise_profiles, rec_ret, rec_line, rec_before, calls, last_input,
              switches, ideal_for, uniform>>
ana_vars == <<in_frame, analyzer, report, exercise_type, detected>>
geo_vars == <<pts, angle_fn, angle_ret>>
fat_vars == <<pose_history, fatigue_scores, dynamic_threshold, fat_ret, fat_before, fat_calls,
              fat_input, fat_fatigued, track, fat_switches>>
sc_vars  == <<sc_angles, sc_profiles, sc_scores, sc_applied>>
api_vars == <<history_owner, api_request, api_response, api_calls>>
vars == <<rec_vars, ana_vars, fat_vars, geo_vars, sc_vars, api_vars>>

NoReport == [angles |-> << >>, mistakes |-> << >>, severity |-> "none"]

\* ------------------------------------------------------------------------
\* The recognizer as a state machine
\* ------------------------------------------------------------------------
MaxCalls    == 10       \* recognize calls in one run
MaxSwitches == 1        \* changes of input in one run

MixedId == [pose |-> "Mixed", miss |-> NoMiss, len |-> 0, dx |-> 0]
FreshId == [pose |-> "Fresh", miss |-> NoMiss, len |-> 0, dx |-> 0]

RecInput(f, fs, up) == [frame |-> f, fatigue_score |-> fs, user_profile |-> up]
Plain(f) == RecInput(f, NoneNum, NoneProfile)
IsPlain(inp) == inp.fatigue_score = NoneNum /\ inp.user_profile.none

Full(p) == Fid(p, NoMiss, NUM_LANDMARKS)

\* frames fed to the recognizer: whole bodies, arms only, the empty list,
\* no frame
RecFrames == {Full("SquatDeep"), Full("SquatLow"), Full("Plank"), Full("Lunge"),
              Full("Deadlift"), Fid("Pushup90", NoMiss, 17), Fid("Plank", NoMiss, 0),
              NoneId}

RecInputs ==
    {Plain(f) : f \in RecFrames}
    \cup {RecInput(NoneId, 9000, UserProfile("high", 30)),
          RecInput(Full("SquatDeep"), 9000, NoneProfile),
          RecInput(Full("SquatLow"), 5000, UserProfile("high", 30)),
          RecInput(Full("Lunge"), NoneNum, UserProfile("low", 50))}

\* every angle of the frame that exercise ex has a range for lies in the
\* range, and there is such an angle
IdealFrame(ex, f) ==
    LET angles == calculate_key_angles(FrameOf(f))
        names  == ScoredNames(get_default_profiles[ex], angles)
    IN  /\ names # {}
        /\ \A name \in names :
              LET r == get_default_profiles[ex].expected_ranges[get_angle_type(name)]
              IN  r[1] <= angles[name] /\ angles[name] <= r[2]

\* the exercises each input frame is ideal for (evaluated once)
IdealSet == [f \in RecFrames |-> {ex \in Exercises : IdealFrame(ex, f)}]

RecFresh ==
    /\ current_exercise = NewRecognizer.current_exercise
    /\ confidence = NewRecognizer.confidence
    /\ history = NewRecognizer.history
    /\ score_smooth = NewRecognizer.score_smooth
    /\ last_phase = NewRecognizer.last_phase
    /\ exercise_profiles = NewRecognizer.exercise_profiles
    /\ rec_ret = <<None, Zero, None>>
    /\ rec_line = 0
    /\ rec_before = NewRecognizer
    /\ calls = 0
    /\ last_input = Plain(FreshId)
    /\ switches = 0
    /\ ideal_for = Exercises
    /\ uniform = FreshId

AnaIdle ==
    /\ in_frame = NoneId
    /\ analyzer = "none"
    /\ report = NoReport
    /\ exercise_type = NoneLabel
    /\ detected = "none"

NoAngles == [fwd |-> NoneNum, rev |-> NoneNum]

GeoIdle ==
    /\ pts = <<NonePt, NonePt, NonePt>>
    /\ angle_fn = "none"
    /\ angle_ret = NoAngles

FatFresh ==
    /\ pose_history = NewFatigueAnalyzer.pose_history
    /\ fatigue_scores = NewFatigueAnalyzer.fatigue_scores
    /\ dynamic_threshold = NewFatigueAnalyzer.dynamic_threshold
    /\ fat_ret = NewFatigueAnalyzer.fatigue_scores
    /\ fat_before = NewFatigueAnalyzer.pose_history
    /\ fat_calls = 0
    /\ fat_input = [frame |-> FreshId, user_profile |-> NoneProfile]
    /\ fat_fatigued = FALSE
    /\ track = [pose |-> "Fresh", dx |-> 0, step |-> NoneNum, n |-> 0, clean |-> TRUE,
                same |-> 0]
    /\ fat_switches = 0

ScIdle ==
    /\ sc_angles = << >>
    /\ sc_profiles = get_default_profiles
    /\ sc_scores = << >>
    /\ sc_applied = FALSE

NoRequest  == [endpoint |-> "none", client |-> 0, frame |-> NoneId, exercise |-> NoneLabel]
NoResponse == [status |-> 0, detected |-> FALSE, exercise |-> NoneLabel, phase |-> None]

ApiIdle ==
    /\ history_owner = << >>
    /\ api_request = NoRequest
    /\ api_response = NoResponse
    /\ api_calls = 0

Init == RecFresh /\ AnaIdle /\ FatFresh /\ GeoIdle /\ ScIdle /\ ApiIdle

Self == [current_exercise |-> current_exercise, confidence |-> confidence,
         history |-> history, score_smooth |-> score_smooth,
         last_phase |-> last_phase, exercise_profiles |-> exercise_profiles]

\* one recognize call on the recognizer held in the variables
RecognizeCall(inp) ==
    /\ \E r \in {recognize(Self, FrameOf(inp.frame), inp.fatigue_score, inp.user_profile)} :
           /\ current_exercise' = r.self.current_exercise
           /\ confidence' = r.self.confidence
           /\ history' = r.self.history
           /\ score_smooth' = r.self.score_smooth
           /\ last_phase' = r.self.last_phase
           /\ exercise_profiles' = r.self.exercise_profiles
           /\ rec_ret' = r.ret
           /\ rec_line' = r.line
    /\ rec_before' = Self
    /\ calls' = calls + 1
    /\ last_input' = inp
    /\ switches' = IF calls > 0 /\ inp # last_input THEN switches + 1 ELSE switches
    /\ ideal_for' = IF IsPlain(inp) /\ inp.frame # NoneId
                    THEN ideal_for \cap IdealSet[inp.frame]
                    ELSE {}
    /\ uniform' = IF IsPlain(inp) /\ (calls = 0 \/ uniform = inp.frame)
                  THEN inp.frame ELSE MixedId
    /\ UNCHANGED <<ana_vars, fat_vars, geo_vars, sc_vars>>

Recognize(inp) ==
    /\ calls < MaxCalls
    /\ (calls > 0 /\ inp # last_input) => switches < MaxSwitches
    /\ RecognizeCall(inp)
    /\ UNCHANGED api_vars

Next == \E inp \in RecInputs : Recognize(inp)

Spec == Init /\ [][Next]_vars

\* ------------------------------------------------------------------------
\* The analyzers as operations on one input frame
\* ------------------------------------------------------------------------
InitAnalyze ==
    /\ in_frame \in AnalyzerFrames
    /\ analyzer = "none"
    /\ report = NoReport
    /\ exercise_type = NoneLabel
    /\ detected = "none"
    /\ RecFresh /\ FatFresh /\ GeoIdle /\ ScIdle /\ ApiIdle

\* one function is applied to the input frame in a run
Untouched == analyzer = "none" /\ detected = "none"

AnalyzeSquat ==
    /\ Untouched
    /\ analyzer' = "squat"
    /\ report' = analyze_squat(FrameOf(in_frame))
    /\ UNCHANGED <<in_frame, exercise_type, detected, rec_vars, fat_vars, geo_vars, sc_vars, api_vars>>

AnalyzePushup ==
    /\ Untouched
    /\ analyzer' = "pushup"
    /\ report' = analyze_pushup(FrameOf(in_frame))
    /\ UNCHANGED <<in_frame, exercise_type, detected, rec_vars, fat_vars, geo_vars, sc_vars, api_vars>>

AnalyzePlank ==
    /\ Untouched
    /\ analyzer' = "plank"
    /\ report' = analyze_plank(FrameOf(in_frame))
    /\ UNCHANGED <<in_frame, exercise_type, detected, rec_vars, fat_vars, geo_vars, sc_vars, api_vars>>

AnalyzeDeadlift ==
    /\ Untouched
    /\ analyzer' = "deadlift"
    /\ report' = analyze_deadlift(FrameOf(in_frame))
    /\ UNCHANGED <<in_frame, exercise_type, detected, rec_vars, fat_vars, geo_vars, sc_vars, api_vars>>

AnalyzeLunge ==
    /\ Untouched
    /\ analyzer' = "lunge"
    /\ report' = analyze_lunge(FrameOf(in_frame))
    /\ UNCHANGED <<in_frame, exercise_type, detected, rec_vars, fat_vars, geo_vars, sc_vars, api_vars>>

\* labels handed to the dispatcher: the known ones in several spellings,
\* unknown ones, the empty string, None
GenericLabels ==
    {NoneLabel, << >>, L_squat, L_pushup, L_push_up, L_deadlift, L_plank, L_lunge,
     L_generic,
     <<"S", "Q", "U", "A", "T">>, <<"S", "q", "u", "a", "t">>,
     <<"P", "u", "s", "h", "-", "U", "p">>, <<"P", "U", "S", "H", "U", "P">>,
     <<"D", "e", "a", "d", "L", "i", "f", "t">>, <<"P", "l", "a", "n", "k">>,
     <<"l", "u", "n", "g", "E">>,
     <<"y", "o", "g", "a">>, <<"s", "q", "u", "a", "t", "s">>,
     <<"p", "u", "s", "h", " ", "u", "p">>}

AnalyzeGeneric(label) ==
    /\ Untouched
    /\ analyzer' = "generic"
    /\ exercise_type' = label
    /\ report' = analyze_generic_exercise(FrameOf(in_frame), label)
    /\ UNCHANGED <<in_frame, detected, rec_vars, fat_vars, geo_vars, sc_vars, api_vars>>

QuickDetect ==
    /\ Untouched
    /\ detected' = quick_detect_exercise(FrameOf(in_frame))
    /\ UNCHANGED <<in_frame, analyzer, report, exercise_type, rec_vars, fat_vars, geo_vars, sc_vars, api_vars>>

NextAnalyze ==
    \/ AnalyzeSquat \/ AnalyzePushup \/ AnalyzePlank \/ AnalyzeDeadlift \/ AnalyzeLunge
    \/ \E label \in GenericLabels : AnalyzeGeneric(label)
    \/ QuickDetect

SpecAnalyze == InitAnalyze /\ [][NextAnalyze]_vars

\* ------------------------------------------------------------------------
\* The fatigue analyzer as a state machine
\* ------------------------------------------------------------------------
MaxFatCalls    == 6     \* update calls in one run
MaxFatSwitches == 1     \* breaks of the motion or changes of profile in one run

FatPoses == {"SquatDeep", "Plank"}
\* hip steps per frame, in 1/100 of the image width
Steps == {0, 5, 10}

IsComplete(f) == f.pose \in PoseNames /\ f.miss = NoMiss /\ f.len = NUM_LANDMARKS

\* frames with a key joint missing: no frame, a list that ends before the
\* ankles, a key joint with NaN coordinates
CutFrames == {NoneId, Fid("SquatDeep", NoMiss, 27)}
NaNFrames == {Fid("SquatDeep", LEFT_KNEE, NUM_LANDMARKS)}

\* the frames a call may bring: the pose fed last with its hip moved on by a
\* step, another pose with its hip at rest, a frame with a key joint missing
NextFrames ==
    (IF track.n > 0 THEN {Shifted(track.pose, track.dx + st) : st \in Steps} ELSE {})
    \cup {Shifted(p, 0) : p \in FatPoses \ {track.pose}}
    \cup CutFrames \cup NaNFrames

FatProfiles == {NoneProfile, UserProfile("low", 18), UserProfile("low", 50)}

\* does a complete frame go on with the motion fed so far
SamePose(f) == track.n > 0 /\ f.pose = track.pose
StepOf(f) == IF SamePose(f) THEN f.dx - track.dx ELSE NoneNum
BreaksMotion(f) ==
    IF ~IsComplete(f) THEN fat_input.frame # f
    ELSE IF track.n = 0 THEN FALSE
    ELSE IF ~IsComplete(fat_input.frame) THEN TRUE
    ELSE IF SamePose(f) THEN track.step # NoneNum /\ StepOf(f) # track.step
    ELSE TRUE
IsSwitch(f, up) ==
    fat_calls > 0 /\ (BreaksMotion(f) \/ up # fat_input.user_profile)

SelfF == [pose_history |-> pose_history, fatigue_scores |-> fatigue_scores,
          dynamic_threshold |-> dynamic_threshold]

Update(f, up) ==
    /\ fat_calls < MaxFatCalls
    /\ IsSwitch(f, up) => fat_switches < MaxFatSwitches
    /\ \E r \in {update(SelfF, FrameOf(f), up)} :
           /\ pose_history' = r.self.pose_history
           /\ fatigue_scores' = r.self.fatigue_scores
           /\ dynamic_threshold' = r.self.dynamic_threshold
           /\ fat_ret' = r.ret
           /\ fat_fatigued' = is_fatigued(r.self)
    /\ fat_before' = pose_history
    /\ fat_calls' = fat_calls + 1
    /\ fat_input' = [frame |-> f, user_profile |-> up]
    /\ fat_switches' = IF IsSwitch(f, up) THEN fat_switches + 1 ELSE fat_switches
    /\ track' = IF IsComplete(f)
                THEN [pose |-> f.pose, dx |-> f.dx, step |-> StepOf(f), n |-> track.n + 1,
                      clean |-> track.clean /\ ~BreaksMotion(f),
                      same |-> IF SamePose(f) /\ f.dx = track.dx
                               THEN track.same + 1 ELSE 1]
                ELSE IF extract_key_points(FrameOf(f)) # NonePose
                THEN [track EXCEPT !.clean = FALSE, !.same = 0]
                ELSE [track EXCEPT !.clean = FALSE]
    /\ UNCHANGED <<rec_vars, ana_vars, geo_vars, sc_vars, api_vars>>

NextFatigue == \E f \in NextFrames, up \in FatProfiles : Update(f, up)

SpecFatigue == Init /\ [][NextFatigue]_vars

\* ------------------------------------------------------------------------
\* Long runs: the bounded buffers of both objects filled beyond capacity
\* ------------------------------------------------------------------------
MaxLongCalls == 28      \* recognize calls in one long run

\* a lunge and a squat, so that the labels in the history tell old from new
LongInputs == {Plain(Full("Lunge")), Plain(Full("SquatDeep"))}

\* the two objects share no state: a run exercises one of them
RecognizeLong(inp) ==
    /\ fat_calls = 0
    /\ calls < MaxLongCalls
    /\ (calls > 0 /\ inp # last_input) => switches < MaxSwitches
    /\ RecognizeCall(inp)
    /\ UNCHANGED api_vars

\* the window does not depend on the profile
UpdateWindow(f) ==
    /\ calls = 0
    /\ Update(f, NoneProfile)

NextBuffers ==
    \/ \E inp \in LongInputs : RecognizeLong(inp)
    \/ \E f \in NextFrames : UpdateWindow(f)

SpecBuffers == Init /\ [][NextBuffers]_vars

\* ------------------------------------------------------------------------
\* The HTTP API (api/main.py): one global recognizer and one global fatigue
\* analyzer, created at startup, serve every request of every client
\* ------------------------------------------------------------------------
ApiMaxCalls == 3        \* requests in one run

Clients == {1, 2}

\* what pose_detector.detect makes of the image: no pose, or 33 landmarks
ApiFrames == {NoneId, Full("SquatDeep"), Full("Lunge"), Full("Plank")}

\* the exercise field of AnalyzeRequest: absent, empty, or a label
ApiExercises == {NoneLabel, << >>, L_squat, <<"S", "q", "u", "a", "t">>}

L_unknown == <<"u", "n", "k", "n", "o", "w", "n">>

\* the labels of the recognizer as the characters of the response
LabelChars(label) ==
    IF label = "squat" THEN L_squat
    ELSE IF label = "pushup" THEN L_pushup
    ELSE IF label = "plank" THEN L_plank
    ELSE IF label = "deadlift" THEN L_deadlift
    ELSE IF label = "lunge" THEN L_lunge
    ELSE L_unknown

\* exercise_recognizer.recognize(landmarks, frame.shape): the second argument
\* is the shape tuple, so `fatigue_score > 0.8` raises a TypeError once the
\* call gets there: the history, the score window, the label and the
\* confidence are updated by then, last_phase is not
recognize_shape(self, landmarks) ==
    Bind(recognize(self, landmarks, NoneNum, NoneProfile), LAMBDA r :
    IF r.line = 76
    THEN [self |-> [r.self EXCEPT !.last_phase = self.last_phase], line |-> 69,
          ret |-> <<None, Zero, None>>, raised |-> TRUE]
    ELSE [self |-> r.self, line |-> r.line, ret |-> r.ret, raised |-> FALSE])

\* how many labels the call pushed on the history: three by the fast mode,
\* one by the arg-max of the smoothed scores
QuickPushed(self, landmarks) ==
    /\ use_quick_detect /\ NoConfidentLabel(self)
    /\ Bind(quick_detect_exercise(landmarks), LAMBDA quick_result :
            quick_result # None /\ quick_result \in DOMAIN self.exercise_profiles)

PushCount(self, landmarks, line) ==
    (IF QuickPushed(self, landmarks) THEN 3 ELSE 0) + (IF line = 69 THEN 1 ELSE 0)

RECURSIVE append_times(_, _, _)
append_times(q, x, k) ==
    IF k = 0 THEN q ELSE append_times(deque_append(q, x, history_maxlen), x, k - 1)

\* the call of the global recognizer on behalf of a client
ApiRecognize(client, frame, r) ==
    /\ current_exercise' = r.self.current_exercise
    /\ confidence' = r.self.confidence
    /\ history' = r.self.history
    /\ score_smooth' = r.self.score_smooth
    /\ last_phase' = r.self.last_phase
    /\ exercise_profiles' = r.self.exercise_profiles
    /\ rec_ret' = r.ret
    /\ rec_line' = r.line
    /\ rec_before' = Self
    /\ calls' = calls + 1
    /\ last_input' = Plain(frame)
    /\ switches' = IF calls > 0 /\ Plain(frame) # last_input THEN switches + 1 ELSE switches
    /\ ideal_for' = ideal_for \cap IdealSet[frame]
    /\ uniform' = IF calls = 0 \/ uniform = frame THEN frame ELSE MixedId
    /\ history_owner' = append_times(history_owner, client,
                                     PushCount(Self, FrameOf(frame), r.line))

\* POST /api/analyze (analyze_posture): every exception of the recognizer
\* and of the fatigue analyzer is caught and answered with defaults;
\* fatigue_analyzer.analyze does not exist, so the pose window is never fed
ApiAnalyze(client, frame, exercise) ==
    /\ api_calls < ApiMaxCalls
    /\ api_calls' = api_calls + 1
    /\ api_request' = [endpoint |-> "analyze", client |-> client, frame |-> frame,
                       exercise |-> exercise]
    /\ IF frame = NoneId
       THEN /\ api_response' = [status |-> 200, detected |-> FALSE,
                                exercise |-> NoneLabel, phase |-> None]
            /\ UNCHANGED <<rec_vars, history_owner>>
       ELSE IF exercise # NoneLabel /\ exercise # << >>
       THEN /\ api_response' = [status |-> 200, detected |-> TRUE,
                                exercise |-> str_lower(exercise), phase |-> "mid"]
            /\ UNCHANGED <<rec_vars, history_owner>>
       ELSE \E r \in {recognize_shape(Self, FrameOf(frame))} :
            /\ ApiRecognize(client, frame, r)
            /\ api_response' =
                   IF r.raised
                   THEN [status |-> 200, detected |-> TRUE, exercise |-> L_unknown,
                         phase |-> "unknown"]
                   ELSE [status |-> 200, detected |-> TRUE,
                         exercise |-> LabelChars(r.ret[1]),
                         phase |-> IF r.ret[3] = None THEN "unknown" ELSE r.ret[3]]
    /\ UNCHANGED <<ana_vars, fat_vars, geo_vars, sc_vars>>

\* POST /api/analyze-stream (analyze_stream): nothing is caught before the
\* outer handler, so the TypeError of recognize or the AttributeError of
\* fatigue_analyzer.analyze ends every request with a pose in status 500,
\* after the recognizer has been changed
ApiAnalyzeStream(client, frame) ==
    /\ api_calls < ApiMaxCalls
    /\ api_calls' = api_calls + 1
    /\ api_request' = [endpoint |-> "analyze-stream", client |-> client, frame |-> frame,
                       exercise |-> NoneLabel]
    /\ IF frame = NoneId
       THEN /\ api_response' = [status |-> 200, detected |-> FALSE,
                                exercise |-> NoneLabel, phase |-> None]
            /\ UNCHANGED <<rec_vars, history_owner>>
       ELSE \E r \in {recognize_shape(Self, FrameOf(frame))} :
            /\ ApiRecognize(client, frame, r)
            /\ api_response' = [status |-> 500, detected |-> FALSE,
                                exercise |-> NoneLabel, phase |-> None]
    /\ UNCHANGED <<ana_vars, fat_vars, geo_vars, sc_vars>>

NextApi ==
    \/ \E client \in Clients, frame \in ApiFrames, exercise \in ApiExercises :
           ApiAnalyze(client, frame, exercise)
    \/ \E client \in Clients, frame \in ApiFrames : ApiAnalyzeStream(client, frame)

SpecApi == Init /\ [][NextApi]_vars

\* ------------------------------------------------------------------------
\* The angle functions as operations on three input points
\* ------------------------------------------------------------------------
\* points on a coarse grid, points with a NaN coordinate, no point
GridPoints == {<<x, y, z>> : x \in {0, 30}, y \in {0, 40}, z \in {0, 20}}
                \cup {<<60, 0, 0>>}
NaNPoints  == {<<NaN, 0, 0>>, <<0, 40, NaN>>}
AnglePoints == GridPoints \cup NaNPoints \cup {NonePt}

InitAngle ==
    /\ pts \in AnglePoints \X AnglePoints \X AnglePoints
    /\ angle_fn = "none"
    /\ angle_ret = NoAngles
    /\ RecFresh /\ AnaIdle /\ FatFresh /\ ScIdle /\ ApiIdle

CalculateAngle ==
    /\ angle_fn' = "calculate_angle"
    /\ angle_ret' = [fwd |-> calculate_angle(pts[1], pts[2], pts[3]),
                     rev |-> calculate_angle(pts[3], pts[2], pts[1])]
    /\ UNCHANGED <<pts, rec_vars, ana_vars, fat_vars, sc_vars, api_vars>>

\* the three points as rows 0, 1, 2 of an array (a row is never None)
RowsOf(t) == [kind |-> "ndarray", n |-> 3, rows |-> [i \in 0..2 |-> t[i + 1]]]

AngleAt ==
    /\ \A i \in 1..3 : pts[i] # NonePt
    /\ angle_fn' = "angle_at"
    /\ angle_ret' = [fwd |-> angle_at(RowsOf(pts), 0, 1, 2),
                     rev |-> angle_at(RowsOf(pts), 2, 1, 0)]
    /\ UNCHANGED <<pts, rec_vars, ana_vars, fat_vars, sc_vars, api_vars>>

NextAngle == CalculateAngle \/ AngleAt

SpecAngle == InitAngle /\ [][NextAngle]_vars

\* ------------------------------------------------------------------------
\* _calculate_exercise_scores applied to one dict of angles
\* ------------------------------------------------------------------------
\* the observed angles: for each name, absent (NoneNum) or one of a few values
\* inside, at the bounds of, near and far from the expected ranges
AngleChoices ==
    [left_knee            : {NoneNum, 40, 70, 80, 150, 175},
     right_knee           : {NoneNum, 100, 180},
     left_hip             : {NoneNum, 60, 121, 170},
     left_elbow           : {NoneNum, 50, 160},
     body_alignment_right : {NoneNum, 100, 165},
     left_shoulder        : {NoneNum, 50}]

\* the dict with the absent names left out
Observed(c) == [name \in {x \in DOMAIN c : c[x] # NoneNum} |-> c[name]]

InitScores ==
    /\ sc_angles \in {Observed(c) : c \in AngleChoices}
    /\ sc_profiles \in {get_default_profiles, get_user_profiles(UserProfile("high", 30))}
    /\ sc_scores = << >>
    /\ sc_applied = FALSE
    /\ RecFresh /\ AnaIdle /\ FatFresh /\ GeoIdle /\ ApiIdle

CalculateScores ==
    /\ ~sc_applied
    /\ sc_scores' = calculate_exercise_scores(sc_profiles, sc_angles)
    /\ sc_applied' = TRUE
    /\ UNCHANGED <<sc_angles, sc_profiles, rec_vars, ana_vars, fat_vars, geo_vars, api_vars>>

NextScores == CalculateScores

SpecScores == InitScores /\ [][NextScores]_vars

\* ------------------------------------------------------------------------
\* Properties of the angle functions
\* ------------------------------------------------------------------------
AllPresent == \A i \in 1..3 : is_valid(pts[i])

\* C11: for present points p1, p2, p3 with p1 # p2 and p3 # p2,
\* calculate_angle(p1, p2, p3) equals calculate_angle(p3, p2, p1) and lies
\* in [0, 180].
C11_AngleSymmetricInRange ==
    (angle_fn = "calculate_angle" /\ AllPresent /\ pts[1] # pts[2] /\ pts[3] # pts[2]) =>
        /\ angle_ret.fwd = angle_ret.rev
        /\ 0 <= angle_ret.fwd /\ angle_ret.fwd <= 180

\* an angle that is neither 0, 90 nor 180, between vectors of unequal length
C11_Witness ==
    /\ angle_fn = "calculate_angle" /\ AllPresent
    /\ pts = <<<<30, 40, 0>>, <<0, 0, 0>>, <<60, 0, 0>>>>
    /\ angle_ret.fwd = 53 /\ angle_ret.rev = 53

\* is a zero-length vector among p1 - p2 and p3 - p2
ZeroVector == pts[1] = pts[2] \/ pts[3] = pts[2]

\* C12: calculate_angle returns None when one of its three points is
\* missing (None or with a NaN coordinate), whatever the other two are, and
\* when p1 = p2 or p3 = p2; in every other case it returns a number.  The
\* same holds of _angle_at on the rows of an array.
C12_NoneExactlyWhenMissingOrDegenerate ==
    (angle_fn \in {"calculate_angle", "angle_at"}) =>
        /\ (angle_ret.fwd = NoneNum) <=> (~AllPresent \/ ZeroVector)
        /\ (angle_ret.rev = NoneNum) <=> (~AllPresent \/ ZeroVector)

\* None for three present points with p3 = p2
C12_Witness ==
    /\ angle_fn = "calculate_angle" /\ angle_ret.fwd = NoneNum
    /\ AllPresent /\ pts[3] = pts[2] /\ pts[1] # pts[2]

\* ------------------------------------------------------------------------
\* Properties of the analyzers
\* ------------------------------------------------------------------------
HasIssue(rep, issue) == \E i \in 1..Len(rep.mistakes) : rep.mistakes[i].issue = issue

HasMistake(rep, issue, sev) ==
    \E i \in 1..Len(rep.mistakes) :
        rep.mistakes[i].issue = issue /\ rep.mistakes[i].severity = sev

KneesShowValgus(id) ==
    /\ Present(id, LEFT_KNEE) /\ Present(id, RIGHT_KNEE)
    /\ FrameOf(id).rows[LEFT_KNEE][1] < FrameOf(id).rows[RIGHT_KNEE][1]

\* C8: every squat report of a frame whose two knees are present with
\* left_knee.x < right_knee.x lists the severe knee-valgus mistake, whatever
\* the other landmarks are (hips or ankles may be missing).
C8_ValgusWheneverKneesCross ==
    (analyzer = "squat" /\ KneesShowValgus(in_frame))
        => HasMistake(report, "Knee Valgus (knees caving inward)", "severe")

\* the elbow angles of the input frame, from its points
ElbowLeft(id) ==
    LET L == landmarks_to_np(FrameOf(id))
    IN  calculate_angle(get_landmark_3d(L, LEFT_SHOULDER), get_landmark_3d(L, LEFT_ELBOW),
                        get_landmark_3d(L, LEFT_WRIST))
ElbowRight(id) ==
    LET L == landmarks_to_np(FrameOf(id))
    IN  calculate_angle(get_landmark_3d(L, RIGHT_SHOULDER), get_landmark_3d(L, RIGHT_ELBOW),
                        get_landmark_3d(L, RIGHT_WRIST))
ElbowsDefined(id) == ElbowLeft(id) # NoneNum /\ ElbowRight(id) # NoneNum
\* twice the mean elbow angle
ElbowSum(id) == ElbowLeft(id) + ElbowRight(id)

\* C9: in a push-up report with both elbow angles defined and m their mean,
\* 'elbows tucked' is listed exactly when m < 45, 'elbows flaring' exactly
\* when m > 90, never both, and neither when 45 <= m <= 90.
C9_ElbowBoundaries ==
    (analyzer = "pushup" /\ ElbowsDefined(in_frame)) =>
        /\ HasIssue(report, "Elbows tucked too close to body") <=> (ElbowSum(in_frame) < 90)
        /\ HasIssue(report, "Elbows flaring outward") <=> (ElbowSum(in_frame) > 180)
        /\ ~(/\ HasIssue(report, "Elbows tucked too close to body")
             /\ HasIssue(report, "Elbows flaring outward"))

\* a push-up report for a mean elbow angle of exactly 45 degrees
C9_Witness45 ==
    /\ analyzer = "pushup" /\ ElbowsDefined(in_frame) /\ ElbowSum(in_frame) = 90
    /\ ~HasIssue(report, "Elbows tucked too close to body")
    /\ ~HasIssue(report, "Elbows flaring outward")

HipAboveShoulder(id) ==
    /\ Present(id, LEFT_HIP) /\ Present(id, LEFT_SHOULDER)
    /\ FrameOf(id).rows[LEFT_HIP][2] < FrameOf(id).rows[LEFT_SHOULDER][2] - 5

\* C10: every plank report and every push-up report of a frame with left hip
\* and left shoulder present and left_hip.y < left_shoulder.y - 0.05 lists
\* the moderate raised-buttocks mistake, whatever the other landmarks are.
C10_RaisedButtocksWheneverHipHigh ==
    /\ (analyzer = "plank" /\ HipAboveShoulder(in_frame))
           => HasMistake(report, "Buttocks raised too high", "moderate")
    /\ (analyzer = "pushup" /\ HipAboveShoulder(in_frame))
           => HasMistake(report, "Raised buttocks", "moderate")

FiveAnalyzers == {"squat", "pushup", "deadlift", "plank", "lunge"}

Shoulders == {LEFT_SHOULDER, RIGHT_SHOULDER}
Elbows    == {LEFT_ELBOW, RIGHT_ELBOW}
Wrists    == {LEFT_WRIST, RIGHT_WRIST}
Hips      == {LEFT_HIP, RIGHT_HIP}
Knees     == {LEFT_KNEE, RIGHT_KNEE}
Ankles    == {LEFT_ANKLE, RIGHT_ANKLE}
Heels     == {LEFT_HEEL, RIGHT_HEEL}

\* the joints whose coordinates a rule reads, by the issue it reports
RequiredJoints(issue) ==
    CASE issue = "Knee Valgus (knees caving inward)"  -> Hips \cup Knees \cup Ankles
      [] issue = "Insufficient squat depth"           -> Hips \cup Knees \cup Ankles
      [] issue = "Excessive forward lean"             -> Shoulders \cup Hips \cup Knees
      [] issue = "Heels lifting off ground"           -> Heels \cup Ankles
      [] issue = "Sagging hips / arched back"         -> Shoulders \cup Hips \cup Ankles
      [] issue = "Raised buttocks"                    -> {LEFT_HIP, LEFT_SHOULDER}
      [] issue = "Elbows tucked too close to body"    -> Shoulders \cup Elbows \cup Wrists
      [] issue = "Elbows flaring outward"             -> Shoulders \cup Elbows \cup Wrists
      [] issue = "Incomplete range of motion"         -> Shoulders \cup Elbows \cup Wrists
      [] issue = "Hips sagging / arched back"         -> Shoulders \cup Hips \cup Ankles
      [] issue = "Buttocks raised too high"           -> {LEFT_HIP, LEFT_SHOULDER}
      [] issue = "Rounded back (spinal flexion)"      -> Shoulders \cup Hips \cup Ankles
      [] issue = "Too much knee bend (squatting the weight)" -> Hips \cup Knees \cup Ankles
      [] issue = "Knees extending too early" -> Shoulders \cup Hips \cup Knees \cup Ankles
      [] issue = "Front knee over toes"               -> {LEFT_KNEE, LEFT_ANKLE}
      [] issue = "Insufficient lunge depth"           -> Hips \cup Knees \cup Ankles

\* no joint of the body is in the frame
FullyMissing(id) == \A idx \in KeyJoints : ~Present(id, idx)

\* C13: for an empty or fully-missing frame each of the five analyzers
\* returns a report whose angles are all undefined, whose mistakes list is
\* empty and whose severity is 'good'; and in any frame a rule lists its
\* mistake only if every joint it reads is present.
C13_NoRuleFiresOnMissingData ==
    (analyzer \in FiveAnalyzers) =>
        /\ FullyMissing(in_frame) =>
               /\ \A k \in DOMAIN report.angles : report.angles[k] = NoneNum
               /\ report.mistakes = << >>
               /\ report.severity = "good"
        /\ \A i \in 1..Len(report.mistakes) :
               \A idx \in RequiredJoints(report.mistakes[i].issue) : Present(in_frame, idx)

\* the lunge report of a list of 33 landmarks that all have NaN coordinates
C13_Witness ==
    /\ analyzer = "lunge" /\ in_frame = Fid("Plank", AllMiss, NUM_LANDMARKS)
    /\ report.mistakes = << >> /\ report.severity = "good"
    /\ report.angles.body_alignment = NoneNum

HasSeverity(rep, sev) == \E i \in 1..Len(rep.mistakes) : rep.mistakes[i].severity = sev

\* C14: the severity of every report of the five analyzers is 'severe' if a
\* listed mistake is severe, otherwise 'moderate' if the list is not empty
\* (also when every mistake in it is minor), otherwise 'good'.
C14_SeverityAggregation ==
    (analyzer \in FiveAnalyzers) =>
        /\ HasSeverity(report, "severe") => report.severity = "severe"
        /\ (~HasSeverity(report, "severe") /\ report.mistakes # << >>)
               => report.severity = "moderate"
        /\ report.mistakes = << >> => report.severity = "good"

\* a report that lists minor mistakes only
C14_Witness ==
    /\ analyzer \in FiveAnalyzers /\ report.mistakes # << >>
    /\ \A i \in 1..Len(report.mistakes) : report.mistakes[i].severity = "minor"
    /\ report.severity = "moderate"

\* two labels that differ in the case of their letters at most
SameIgnoringCase(a, b) ==
    /\ Len(a) = Len(b)
    /\ \A i \in 1..Len(a) :
          \/ a[i] = b[i]
          \/ \E k \in 1..Len(Uppers) : {a[i], b[i]} = {Uppers[k], Lowers[k]}

Names(label, names) ==
    label # NoneLabel /\ \E name \in names : SameIgnoringCase(label, name)

\* C15: analyze_generic_exercise with a label that is none of squat, pushup,
\* push-up, deadlift, plank, lunge (letters compared without their case), or
\* with no label, returns a report with no mistakes and severity 'good';
\* with one of those labels it returns the report of the matching analyzer.
C15_GenericDispatch ==
    (analyzer = "generic") =>
        /\ Names(exercise_type, {L_squat}) => report = analyze_squat(FrameOf(in_frame))
        /\ Names(exercise_type, {L_pushup, L_push_up})
               => report = analyze_pushup(FrameOf(in_frame))
        /\ Names(exercise_type, {L_deadlift}) => report = analyze_deadlift(FrameOf(in_frame))
        /\ Names(exercise_type, {L_plank}) => report = analyze_plank(FrameOf(in_frame))
        /\ Names(exercise_type, {L_lunge}) => report = analyze_lunge(FrameOf(in_frame))
        /\ ~Names(exercise_type, {L_squat, L_pushup, L_push_up, L_deadlift, L_plank, L_lunge})
               => report.mistakes = << >> /\ report.severity = "good"

\* 'SQUAT' on a valgus frame gives the squat report; the frame has mistakes
C15_Witness ==
    /\ analyzer = "generic" /\ exercise_type = <<"S", "Q", "U", "A", "T">>
    /\ in_frame = Fid("SquatValgus", NoMiss, NUM_LANDMARKS)
    /\ report.severity = "severe"

\* the angles the decision list of quick detection speaks of
QAngle(id, i1, i2, i3) == angle_at(landmarks_to_np(FrameOf(id)), i1, i2, i3)
QKnees(id)  == coalesce_angles(<<QAngle(id, LEFT_HIP, LEFT_KNEE, LEFT_ANKLE),
                                 QAngle(id, RIGHT_HIP, RIGHT_KNEE, RIGHT_ANKLE)>>)
QBodies(id) == coalesce_angles(<<QAngle(id, LEFT_SHOULDER, LEFT_HIP, LEFT_ANKLE),
                                 QAngle(id, RIGHT_SHOULDER, RIGHT_HIP, RIGHT_ANKLE)>>)
QElbows(id) == coalesce_angles(<<QAngle(id, LEFT_SHOULDER, LEFT_ELBOW, LEFT_WRIST),
                                 QAngle(id, RIGHT_SHOULDER, RIGHT_ELBOW, RIGHT_WRIST)>>)
\* mean(q) >= t and mean(q) < t for a list with a mean
MeanGe(q, t) == q # << >> /\ SumSeq(q) >= t * Len(q)
MeanLt(q, t) == q # << >> /\ SumSeq(q) < t * Len(q)
XOffset(id, i, j) ==
    /\ Present(id, i) /\ Present(id, j)
    /\ Abs(FrameOf(id).rows[i][1] - FrameOf(id).rows[j][1]) > 6

\* the decision list as it is written: 'deadlift' asks for both knee angles
DecisionList(id) ==
    IF MeanGe(QBodies(id), 170)
    THEN IF MeanLt(QElbows(id), 160) THEN "pushup" ELSE "plank"
    ELSE IF Len(QKnees(id)) = 2 /\ QKnees(id)[1] < 140 /\ QKnees(id)[2] < 140
    THEN "squat"
    ELSE IF \/ Len(QKnees(id)) = 2 /\ Abs(QKnees(id)[1] - QKnees(id)[2]) > 15
            \/ XOffset(id, LEFT_KNEE, LEFT_ANKLE) \/ XOffset(id, RIGHT_KNEE, RIGHT_ANKLE)
    THEN "lunge"
    ELSE IF /\ Len(QKnees(id)) = 2 /\ QKnees(id)[1] >= 140 /\ QKnees(id)[2] >= 140
            /\ MeanLt(QBodies(id), 170)
    THEN "deadlift"
    ELSE None

\* C20: quick_detect_exercise returns, for every frame, what the
\* priority-ordered decision list gives; 'deadlift' only when both knee
\* angles are available and >= 140.
C20_QuickDetectIsDecisionList ==
    (detected # "none") => detected = DecisionList(in_frame)

\* ------------------------------------------------------------------------
\* Properties of the recognizer
\* ------------------------------------------------------------------------
\* C1: once a fresh recognizer has been fed 10 or more consecutive frames
\* that are ideal for exercise X, its confidence is 1.0 and its label is X,
\* and both stay so while such frames keep coming.
C1_IdealRunLocksLabel ==
    \A X \in ideal_for :
        calls >= min_frames => (confidence = One /\ current_exercise = X)

QuickIsSquat(f) == f \in RecFrames /\ quick_detect_exercise(FrameOf(f)) = "squat"

\* C2 (as stated): the fourth of four recognize calls with one frame whose
\* quick detection is 'squat', on a fresh recognizer, returns exactly
\* ('squat', 0.8, 'init').
C2_FourthCallBootstraps ==
    (calls = 4 /\ QuickIsSquat(uniform)) => rec_ret = <<"squat", <<4, 5>>, "init">>

\* C2 (amended): with one frame whose quick detection is 'squat' fed to a
\* fresh recognizer, the second call returns exactly ('squat', 0.8, 'init');
\* the third and the fourth call return 'squat' with confidence 0.8 and the
\* phase detected from the frame's angles, not 'init'.
C2_SecondCallBootstraps ==
    QuickIsSquat(uniform) =>
        /\ calls = 2 => rec_ret = <<"squat", <<4, 5>>, "init">>
        /\ calls \in {3, 4} =>
               rec_ret = <<"squat", <<4, 5>>,
                           detect_phase(exercise_profiles,
                                        calculate_key_angles(FrameOf(uniform)), "squat")>>

C2_Witness ==
    /\ calls = 4 /\ QuickIsSquat(uniform)
    /\ rec_ret = <<"squat", <<4, 5>>, "mid">>

\* C3: a recognize call with no landmarks, with any fatigue score and any
\* user profile, returns the held (label, confidence, last phase) and leaves
\* label, confidence, last phase, label history and score window as they
\* were; so does every repetition of the call.
C3_AbsentFrameChangesNothing ==
    [][(calls' = calls + 1 /\ last_input'.frame = NoneId) =>
          /\ rec_ret' = <<current_exercise, confidence, last_phase>>
          /\ UNCHANGED <<current_exercise, confidence, last_phase, history, score_smooth>>]_vars

C3_Witness ==
    /\ last_input = RecInput(NoneId, 9000, UserProfile("high", 30))
    /\ current_exercise = "squat" /\ confidence = <<4, 5>>
    /\ rec_ret = <<"squat", <<4, 5>>, last_phase>>

InUnit(c) == FracLe(Zero, c) /\ FracLe(c, One)

\* C16: after any sequence of recognize calls, with any frames, fatigue
\* scores and user profiles, the recognizer's confidence and the confidence
\* each call returns lie in [0, 1].
C16_ConfidenceInUnitInterval ==
    InUnit(confidence) /\ InUnit(rec_ret[2])

\* a history of one label only: 1.0 * 1.1 is cut back to 1.0
C16_Witness ==
    /\ calls >= min_frames /\ Len(history) >= min_frames
    /\ \A i \in 1..Len(history) : history[i] = history[1]
    /\ confidence = One /\ rec_ret[2] = One

Phases == {"init", "mid", "end", "unk"}

\* C17: the phase of every triple recognize returns, for any call sequence
\* on a fresh recognizer and any frame, is one of 'init', 'mid', 'end',
\* 'unk'.
C17_PhaseIsOneOfFour ==
    calls >= 1 => rec_ret[3] \in Phases

\* every built-in range widened by 10 on each side
Widened ==
    [ex \in Exercises |->
        [expected_ranges |->
            [k \in DOMAIN get_default_profiles[ex].expected_ranges |->
                <<get_default_profiles[ex].expected_ranges[k][1] - 10,
                  get_default_profiles[ex].expected_ranges[k][2] + 10>>],
         weight |-> get_default_profiles[ex].weight]]

\* C19: each expected range of each of the five profiles in effect is the
\* built-in (min, max) or (min - 10, max + 10); a call with a
\* high-flexibility profile, however often repeated, leaves the ranges at
\* (min - 10, max + 10); a new recognizer and a call with a profile that is
\* not high have the built-in ranges.
C19_RangesDefaultOrWidenedOnce ==
    /\ DOMAIN exercise_profiles = Exercises
    /\ \A ex \in Exercises :
          /\ DOMAIN exercise_profiles[ex].expected_ranges
                 = DOMAIN get_default_profiles[ex].expected_ranges
          /\ \A k \in DOMAIN exercise_profiles[ex].expected_ranges :
                 exercise_profiles[ex].expected_ranges[k]
                     \in {get_default_profiles[ex].expected_ranges[k],
                          Widened[ex].expected_ranges[k]}
    /\ calls = 0 => exercise_profiles = get_default_profiles
    /\ (calls >= 1 /\ ~last_input.user_profile.none) =>
          exercise_profiles = IF last_input.user_profile.flexibility = "high"
                              THEN Widened ELSE get_default_profiles

\* the same high-flexibility input three times or more
C19_Witness ==
    /\ calls >= 3 /\ switches = 0
    /\ last_input.user_profile.flexibility = "high"
    /\ exercise_profiles = Widened
    /\ exercise_profiles["squat"].expected_ranges["knee"] = <<70, 150>>

\* the last call went through to line 76 and recomputed the confidence
\* (the label history had min_frames entries or more after its append)
Recomputed == calls >= 1 /\ rec_line = 76 /\ Len(history) >= min_frames

\* the most frequent label of the history and its fraction of the history
Mode == most_common(history)
Freq == Frac(CountOf(history, Mode), Len(history))

\* the external fatigue score of the last call, applied to confidence c
AfterFatigue(c) == fatigue_penalty(c, last_input.fatigue_score)

\* C22 (as stated): in every recognize call that recomputes confidence, the
\* recomputed confidence (before the fatigue reduction of the same call) is
\* freq * 0.7 if the mode of the history differs from the label held before
\* the step, None included, and min(1, freq * 1.1) if the mode equals it.
C22_PenaltyWheneverModeDiffers ==
    Recomputed =>
        confidence = AfterFatigue(IF Mode # rec_before.current_exercise
                                  THEN FracMul(Freq, <<7, 10>>)
                                  ELSE FracMin(One, FracMul(Freq, <<11, 10>>)))

\* C22 (amended): the recomputed confidence is freq * 0.7 if a label was held
\* before the step and the mode differs from it; it is min(1, freq * 1.1) if
\* the mode equals the held label and also if no label was held (None).
C22_PenaltyOnlyForHeldLabel ==
    Recomputed =>
        confidence = AfterFatigue(IF rec_before.current_exercise # None
                                     /\ Mode # rec_before.current_exercise
                                  THEN FracMul(Freq, <<7, 10>>)
                                  ELSE FracMin(One, FracMul(Freq, <<11, 10>>)))

\* no label held before the step, a mode below the threshold: freq * 1.1
C22_Witness ==
    /\ Recomputed /\ rec_before.current_exercise = None
    /\ last_input.fatigue_score = NoneNum
    /\ FracLt(Freq, <<confidence_threshold_num, 10>>)
    /\ confidence = FracMul(Freq, <<11, 10>>)

\* C23: in the confidence-recompute step the label becomes the most frequent
\* label of the history exactly when that label's fraction of the history is
\* >= confidence_threshold (0.7); below the threshold the label stays as it
\* was before the step.
C23_PromotionExactlyAtThreshold ==
    Recomputed =>
        current_exercise = IF FracLe(<<confidence_threshold_num, 10>>, Freq)
                           THEN Mode ELSE rec_before.current_exercise

\* a mode of exactly 0.7 of the history replaces another label
C23_Witness ==
    /\ Recomputed /\ Freq = <<confidence_threshold_num, 10>>
    /\ rec_before.current_exercise \notin {None, Mode}
    /\ current_exercise = Mode

\* the last n entries of q
LastN(q, n) == IF Len(q) <= n THEN q ELSE SubSeq(q, Len(q) - n + 1, Len(q))

\* what quick detection returns for the frame of the last call
QuickOf     == [f \in RecFrames \ {NoneId} |-> quick_detect_exercise(FrameOf(f))]
QuickOfLast == QuickOf[last_input.frame]

\* the last call had a present frame, found no confident label and its
\* quick detection returned the label of a known profile
BootstrapCase ==
    /\ calls >= 1 /\ last_input.frame # NoneId
    /\ use_quick_detect
    /\ rec_before.current_exercise = None \/ FracLt(rec_before.confidence, <<1, 2>>)
    /\ QuickOfLast \in Exercises

\* the label history before the call with the label pushed three times
PushedThrice ==
    LastN(rec_before.history \o <<QuickOfLast, QuickOfLast, QuickOfLast>>, history_maxlen)

\* C24: in a recognize call with a present frame, quick detection enabled,
\* no confident label (label None or confidence < 0.5) and a quick-detected
\* label of a known profile, the label is appended exactly three times to the
\* history.  If the history then has min_frames // 2 entries or more, the
\* call sets the label to it, the confidence to 0.8 and the phase to 'init'
\* and returns at once: nothing else is appended to the label history or the
\* score window.  If the history is still shorter, the bootstrap step leaves
\* label and confidence alone (the call goes on to the scoring path, where
\* only the fatigue reduction can touch the confidence, the history being
\* shorter than min_frames).
C24_BootstrapPushesThree ==
    BootstrapCase =>
        IF Len(PushedThrice) >= min_frames \div 2
        THEN /\ history = PushedThrice
             /\ score_smooth = rec_before.score_smooth
             /\ current_exercise = QuickOfLast /\ confidence = <<4, 5>>
             /\ last_phase = "init"
             /\ rec_ret = <<QuickOfLast, <<4, 5>>, "init">>
        ELSE /\ history \in {PushedThrice} \cup
                            {Append(PushedThrice, ex) : ex \in Exercises}
             /\ current_exercise = rec_before.current_exercise
             /\ confidence \in {rec_before.confidence, AfterFatigue(rec_before.confidence)}

\* a history of four entries grows to seven and the call returns at line 49
C24_Witness ==
    /\ BootstrapCase /\ Len(rec_before.history) = 4 /\ Len(history) = 7
    /\ rec_before.current_exercise = None
    /\ rec_ret = <<QuickOfLast, <<4, 5>>, "init">>

\* the last call reached the phase detection of line 73
PhaseDetected == calls >= 1 /\ rec_line = 76

\* the exercise chosen by the arg-max of the smoothed scores: the label the
\* call appended to the history
Chosen == history[Len(history)]

\* the knee angles available in the frame of the last call, their number and
\* their sum (the mean knee angle k is KneeSum / KneeCount)
KeyAnglesOf == [f \in RecFrames \ {NoneId} |-> calculate_key_angles(FrameOf(f))]
LastAngles  == KeyAnglesOf[last_input.frame]
KneeNames  == {name \in {"left_knee", "right_knee"} :
                  name \in DOMAIN LastAngles /\ LastAngles[name] # 0}
KneeCount  == Cardinality(KneeNames)
KneeSum    == SumOver(KneeNames, LastAngles)

HasKneeRange == "knee" \in DOMAIN exercise_profiles[Chosen].expected_ranges
KneeMin == exercise_profiles[Chosen].expected_ranges["knee"][1]
KneeMax == exercise_profiles[Chosen].expected_ranges["knee"][2]

\* C25 (as stated): in a call that reaches phase detection the phase is
\* 'unk' if the chosen exercise has no knee range or no knee angle is
\* available; otherwise 'end' if the mean knee angle k is within 10 degrees
\* of the range minimum, 'init' if k is within 10 degrees of the range
\* maximum, and 'mid' in all other cases.
C25_PhaseWithinTenOfBounds ==
    PhaseDetected =>
        rec_ret[3] =
            IF ~HasKneeRange \/ KneeCount = 0 THEN "unk"
            ELSE IF Abs(KneeSum - KneeMin * KneeCount) <= 10 * KneeCount THEN "end"
            ELSE IF Abs(KneeSum - KneeMax * KneeCount) <= 10 * KneeCount THEN "init"
            ELSE "mid"

\* C25 (amended): the phase is 'unk' if the chosen exercise has no knee
\* range or no knee angle is available; otherwise 'end' if k < minimum + 10
\* (however far below the minimum), else 'init' if k > maximum - 10 (however
\* far above the maximum), else 'mid' (minimum + 10 <= k <= maximum - 10).
C25_PhaseByHalfLines ==
    PhaseDetected =>
        /\ rec_ret[3] = last_phase
        /\ rec_ret[3] =
              IF ~HasKneeRange \/ KneeCount = 0 THEN "unk"
              ELSE IF KneeSum < (KneeMin + 10) * KneeCount THEN "end"
              ELSE IF KneeSum > (KneeMax - 10) * KneeCount THEN "init"
              ELSE "mid"

\* a mean knee angle more than 10 degrees below the range minimum: 'end'
C25_Witness ==
    /\ PhaseDetected /\ HasKneeRange /\ KneeCount > 0
    /\ KneeSum < (KneeMin - 10) * KneeCount
    /\ rec_ret[3] = "end"

\* the last call replaced an established label by another one
LabelSwitched ==
    /\ calls >= 1 /\ rec_before.current_exercise # None
    /\ current_exercise # rec_before.current_exercise

\* the switch came from the recompute step: the new label is the most
\* frequent of the history, with a fraction >= confidence_threshold
SwitchedByMode ==
    /\ Recomputed /\ current_exercise = Mode
    /\ FracLe(<<confidence_threshold_num, 10>>, Freq)

\* the switch came from the bootstrap: the confidence held was below 0.5 and
\* the call returned the quick-detected label at line 49
SwitchedByBootstrap ==
    /\ BootstrapCase /\ FracLt(rec_before.confidence, <<1, 2>>)
    /\ rec_line = 49 /\ current_exercise = QuickOfLast
    /\ Len(PushedThrice) >= min_frames \div 2

\* C29 (as stated): once the recognizer holds a label A, a recognize call
\* replaces it by a different label B only when B is the most frequent label
\* of the history with a fraction >= confidence_threshold; no other path, the
\* quick-detect bootstrap in particular, switches an established label.
C29_SwitchOnlyByMode ==
    LabelSwitched => SwitchedByMode

\* C29 (amended): an established label A is replaced by a different label B
\* only (a) in the recompute step, B being the most frequent label of the
\* history with a fraction >= confidence_threshold, or (b) in the bootstrap,
\* when the confidence held is below 0.5, quick detection returns B and the
\* history has min_frames // 2 entries or more after the three pushes.  In
\* case (b) B need not be the most frequent label.  A label is never
\* replaced by None.
C29_SwitchByModeOrBootstrap ==
    /\ LabelSwitched => (SwitchedByMode \/ SwitchedByBootstrap)
    /\ (calls >= 1 /\ rec_before.current_exercise # None) => current_exercise # None

\* the bootstrap replaces a label held with confidence < 0.5 by one that is
\* not the most frequent of the history
C29_Witness ==
    /\ LabelSwitched /\ SwitchedByBootstrap
    /\ current_exercise # Mode

\* the type of an observed angle
TypeOf(name) ==
    CASE name \in {"left_knee", "right_knee"} -> "knee"
      [] name \in {"left_hip", "right_hip"} -> "hip"
      [] name \in {"left_elbow", "right_elbow"} -> "elbow"
      [] name \in {"left_shoulder", "right_shoulder"} -> "shoulder"
      [] name \in {"body_alignment_left", "body_alignment_right"} -> "body_alignment"

\* the observed angles the profile of ex has an expected range for
Counted(ex) ==
    {name \in DOMAIN sc_angles : TypeOf(name) \in DOMAIN sc_profiles[ex].expected_ranges}

\* 90 times the credit of one angle: 1.0 inside the range, bounds included,
\* max(0, 1 - d / 90) outside, d the distance to the nearest bound
Credit90(ex, name) ==
    LET a  == sc_angles[name]
        lo == sc_profiles[ex].expected_ranges[TypeOf(name)][1]
        hi == sc_profiles[ex].expected_ranges[TypeOf(name)][2]
        d  == IF a < lo THEN lo - a ELSE a - hi
    IN  IF lo <= a /\ a <= hi THEN 90 ELSE IF d >= 90 THEN 0 ELSE 90 - d

\* C26: for every dict of observed angles and every profile, the score of
\* the profile is weight * the average, over the observed angles whose type
\* has an expected range in the profile, of 1.0 inside the range (bounds
\* included) and max(0, 1 - d/90) outside; a profile with no such angle gets
\* no score; every score lies in [0, weight].  (Scores are in 1/ScoreScale,
\* weights in tenths: score / ScoreScale = weight / 10 * sum / (90 * n),
\* that is score * n = ScoreScale / 900 * weight * sum.)
C26_ScoreIsWeightedAverage ==
    sc_applied =>
        \A ex \in Exercises :
            IF Counted(ex) = {} THEN ex \notin Keys(sc_scores)
            ELSE /\ ex \in Keys(sc_scores)
                 /\ Get(sc_scores, ex) * Cardinality(Counted(ex))
                        = (ScoreScale \div 900) * sc_profiles[ex].weight
                            * SumOver(Counted(ex), [name \in Counted(ex) |-> Credit90(ex, name)])
                 /\ 0 <= Get(sc_scores, ex)
                 /\ Get(sc_scores, ex) * 10 <= sc_profiles[ex].weight * ScoreScale

\* a knee at 40 and a hip at 121 against the built-in profiles: deadlift
\* (knee 160..180, hip 120..170) scores (0 + 1) / 2 * 1.1, squat (knee
\* 80..140, hip 60..120) scores (50/90 + 89/90) / 2, pushup and plank nothing
C26_Witness ==
    /\ sc_applied /\ sc_profiles = get_default_profiles
    /\ DOMAIN sc_angles = {"left_knee", "left_hip"}
    /\ sc_angles["left_knee"] = 40 /\ sc_angles["left_hip"] = 121
    /\ Keys(sc_scores) = {"squat", "lunge", "deadlift"}
    /\ Get(sc_scores, "deadlift") * 20 = 11 * ScoreScale
    /\ Get(sc_scores, "squat") * 180 = 139 * ScoreScale

\* the number of labels the last recognize call appended to the history:
\* three in the bootstrap step, one after the scoring
PushedLabels ==
    (IF BootstrapCase THEN 3 ELSE 0) + (IF rec_line = 76 THEN 1 ELSE 0)

\* the number of score maps it appended to the score window
PushedScores == IF rec_line \in {60, 76} THEN 1 ELSE 0

WithinCapacity ==
    /\ Len(history) <= history_maxlen
    /\ Len(score_smooth) <= smooth_window
    /\ Len(pose_history) <= window_size

\* after a recognize call each buffer is the buffer before the call followed
\* by the new entries, cut down to its capacity from the old end
RecognizerBuffersSlide ==
    calls >= 1 =>
        /\ history = LastN(rec_before.history \o LastN(history, PushedLabels),
                           history_maxlen)
        /\ score_smooth = LastN(rec_before.score_smooth \o LastN(score_smooth, PushedScores),
                                smooth_window)

\* an update call with an accepted frame appends its key points to the pose
\* window, the oldest entry leaving a full window; a rejected frame leaves
\* the window alone
PoseWindowSlides ==
    fat_calls >= 1 =>
        pose_history =
            IF extract_key_points(FrameOf(fat_input.frame)) # NonePose
            THEN LastN(Append(fat_before, extract_key_points(FrameOf(fat_input.frame))),
                       window_size)
            ELSE fat_before

\* C27: after any sequence of calls the label history holds at most 30
\* entries, the score window at most smooth_window (5) and the pose window
\* of the fatigue analyzer at most window_size; each buffer keeps the most
\* recent entries in insertion order and drops the oldest first.
C27_BoundedBuffersDropOldest ==
    WithinCapacity /\ RecognizerBuffersSlide /\ PoseWindowSlides

\* a full history of 30 labels, lunges first, loses its three oldest
\* entries to three squats pushed by the bootstrap; the score window is full
C27_Witness ==
    /\ Len(rec_before.history) = history_maxlen /\ Len(history) = history_maxlen
    /\ Len(score_smooth) = smooth_window
    /\ rec_before.history[1] = "lunge" /\ PushedLabels = 3
    /\ history = SubSeq(rec_before.history, 4, history_maxlen) \o <<"squat", "squat", "squat">>

\* ------------------------------------------------------------------------
\* Properties of the fatigue analyzer
\* ------------------------------------------------------------------------
ScoreNames == {"shoulder_stability", "core_stability", "knee_stability",
               "elbow_stability", "ankle_stability", "velocity", "early_fatigue",
               "overall"}
AllZero(scores) == \A name \in ScoreNames : scores[name] = 0

MissesKeyJoint(f) == \E k \in KeySet : ~Present(f, k)

\* C4: an update call with a frame in which a key joint is missing (beyond
\* the end of the list, or with NaN coordinates) returns the scores of the
\* call before and changes neither the pose window nor a score nor the
\* threshold.
C4_MissingJointChangesNothing ==
    [][(fat_calls' = fat_calls + 1 /\ MissesKeyJoint(fat_input'.frame)) =>
          /\ fat_ret' = fat_ret
          /\ UNCHANGED <<pose_history, fatigue_scores, dynamic_threshold>>]_vars

\* C5: on an analyzer that started fresh, every update call that leaves
\* fewer than 2 frames in the window returns eight scores equal to 0, and
\* is_fatigued() is false then.
C5_ZeroBelowTwoFrames ==
    (fat_calls >= 1 /\ Len(pose_history) < 2) =>
        AllZero(fat_ret) /\ AllZero(fatigue_scores) /\ ~fat_fatigued

C5_Witness ==
    /\ fat_calls = 3 /\ Len(pose_history) = 1 /\ IsComplete(fat_input.frame)
    /\ AllZero(fat_ret) /\ ~fat_fatigued

\* every call so far brought the same complete frame
SameFrameSoFar ==
    /\ fat_calls >= 1 /\ track.clean /\ track.n = fat_calls
    /\ track.step \in {NoneNum, 0}

\* C6: on a fresh analyzer fed the same complete frame n >= 1 times, after
\* each call overall and every other score is 0.
C6_SameFrameAllZero ==
    SameFrameSoFar => AllZero(fatigue_scores) /\ AllZero(fat_ret)

C6_Witness ==
    /\ SameFrameSoFar /\ fat_calls = 5 /\ Len(pose_history) = 5
    /\ fatigue_scores.overall = 0

\* a fresh analyzer fed n frames of pose p, the left hip moving by s a frame
RECURSIVE FeedLinear(_, _, _, _, _)
FeedLinear(self, p, s, k, n) ==
    IF k = n THEN self
    ELSE FeedLinear(update(self, FrameOf(Shifted(p, k * s)), NoneProfile).self, p, s, k + 1, n)
RunLinear(p, s, n) == FeedLinear(NewFatigueAnalyzer, p, s, 0, n).fatigue_scores

\* the five calls so far brought one pose with the hip moving by one step > 0
FiveLinearFrames ==
    /\ fat_calls = 5 /\ track.clean /\ track.n = 5 /\ track.step > 0

\* C7 (as stated): after five complete frames with one hip moving by a fixed
\* step, core_stability and velocity are > 0, and both are strictly larger
\* than they are for every smaller step.
C7_StrictlyLargerForLargerStep ==
    FiveLinearFrames =>
        /\ fatigue_scores.core_stability > 0 /\ fatigue_scores.velocity > 0
        /\ \A s1 \in Steps :
              (0 < s1 /\ s1 < track.step) =>
                 /\ RunLinear(track.pose, s1, 5).core_stability < fatigue_scores.core_stability
                 /\ RunLinear(track.pose, s1, 5).velocity < fatigue_scores.velocity

\* C7 (amended): after five complete frames with one hip moving by a fixed
\* step, core_stability and velocity are > 0 and at most 1.0, and velocity
\* is strictly larger than it is for every smaller step.
C7_PositiveAndVelocityLarger ==
    FiveLinearFrames =>
        /\ fatigue_scores.core_stability > 0 /\ fatigue_scores.velocity > 0
        /\ fatigue_scores.core_stability <= FScale /\ fatigue_scores.velocity <= FScale
        /\ \A s1 \in Steps :
              (0 < s1 /\ s1 < track.step) =>
                 RunLinear(track.pose, s1, 5).velocity < fatigue_scores.velocity

C7_Witness ==
    /\ FiveLinearFrames /\ track.step = 10
    /\ fatigue_scores.core_stability = FScale
    /\ RunLinear(track.pose, 5, 5).core_stability = FScale
    /\ fatigue_scores.velocity = 500

\* default + 0.03 below 20 years, default - 0.03 above 40, else the default
ThresholdFor(user_profile) ==
    IF user_profile.none THEN default_threshold
    ELSE IF user_profile.age < 20 THEN default_threshold + 300
    ELSE IF user_profile.age > 40 THEN default_threshold - 300
    ELSE default_threshold

\* C18: after every update call in dynamic mode the threshold is_fatigued()
\* compares overall against is the one of that call's user profile alone:
\* default + 0.03 if age < 20, default - 0.03 if age > 40, the default
\* otherwise or without a profile.
C18_ThresholdFollowsLastProfile ==
    fat_calls >= 1 =>
        /\ dynamic_threshold = ThresholdFor(fat_input.user_profile)
        /\ fat_fatigued <=> (/\ fatigue_scores.overall # NaN
                              /\ fatigue_scores.overall > ThresholdFor(fat_input.user_profile))
\* C28: after any sequence of update calls with any frames (complete,
\* partial, or with NaN coordinates), each of the eight fatigue scores,
\* overall included, lies in [0, 1].
C28_ScoresInUnitInterval ==
    \A name \in ScoreNames :
        /\ 0 <= fatigue_scores[name] /\ fatigue_scores[name] <= FScale
        /\ 0 <= fat_ret[name] /\ fat_ret[name] <= FScale

\* C30: from any reachable state, after window_size consecutive accepted
\* updates with one identical complete frame all eight scores are 0 and
\* is_fatigued() is false: the movement seen before has left the window.
C30_IdenticalWindowForgets ==
    track.same >= window_size =>
        /\ AllZero(fatigue_scores) /\ AllZero(fat_ret)
        /\ ~fat_fatigued

\* the last of the identical frames pushed a different, older frame out of
\* the window: the scores were above 0 one call earlier
C30_Witness ==
    /\ track.same = window_size /\ fat_calls > window_size
    /\ Len(fat_before) = window_size /\ fat_before[1] # pose_history[1]
    /\ AllZero(fatigue_scores) /\ ~fat_fatigued

\* ------------------------------------------------------------------------
\* Properties of the HTTP API
\* ------------------------------------------------------------------------
\* the ghost follows the history entry by entry
OwnersFollowHistory == Len(history_owner) = Len(history)

Served == api_request.endpoint # "none"

\* C21: for any interleaving of /api/analyze and /api/analyze-stream
\* requests of two clients, the label history (and the pose window) that
\* serves a client holds only that client's frames.  The pose window is
\* never fed by the API; the label history is the part that can fail.
C21_InstancesNotShared ==
    Served =>
        /\ \A i \in 1..Len(history_owner) : history_owner[i] = api_request.client
        /\ pose_history = << >>

\* a label was answered to one client from a history filled by the other
C21_SharedWitness ==
    /\ Served /\ api_response.status = 200 /\ api_response.exercise \in {L_squat, L_lunge}
    /\ api_request.exercise = NoneLabel
    /\ \E i \in 1..Len(history_owner) : history_owner[i] # api_request.client

====
